---- MODULE Spec2Model ----
(***************************************************************************)
(* State-machine model of the gachapon-game program                        *)
(* (programs/gachapon-game/src/lib.rs): the probability table, the draw    *)
(* resolver, the supply ledger, the play-session life cycle and the        *)
(* play-fee transfer.                                                      *)
(*                                                                         *)
(* Every instruction is one atomic step.  An instruction that returns an   *)
(* error is rolled back whole by the runtime, so a failing step changes    *)
(* only `result`, the record of the last instruction and its outcome.      *)
(*                                                                         *)
(* Number representation.  TLC's integers are 32-bit signed, therefore     *)
(*   - a u32 (supply counters) is a record [hi, lo] of two 16-bit limbs,   *)
(*     value hi * 65536 + lo, with the checked / saturating operations     *)
(*     written on the limbs;                                               *)
(*   - the u64 read from the first 8 random bytes is never materialised:   *)
(*     only its residue mod 10000 is used by the code, and that residue is *)
(*     computed byte by byte ((sum b_i * 256^i) mod 10000).                *)
(***************************************************************************)
EXTENDS Integers, Sequences, FiniteSets, TLC

\* ------------------------------------------------------------------ constants

MAX_PRIZES == 16

BP_TOTAL == 10000

\* ------------------------------------------------------------------ bounds

\* add_prize is explored while prize_count < MaxPrizeCount
MaxPrizeCount == 2

\* finalize_play is explored while total_plays < MaxPlays
MaxPlays == 2

\* replenish_prize_supply is explored while the low limb of supply_total stays <= MaxSupply
MaxSupply == 2

\* ------------------------------------------------------------------ state

VARIABLES
  config,     \* Config account
  game,       \* Game account (NoAccount before initialize_game / after close_game)
  prizes,     \* Prize accounts by prize index (PDA "prize", game, index)
  sessions,   \* PlaySession accounts by (user, session_seed)
  balances,   \* token ledger: balance of every token account
  minted,     \* collectible issuer: units minted per (owner, prize index)
  result,     \* the last instruction: its name, its arguments, the error it returned,
              \* and whether it found the game active
  wins,       \* history: successful finalize_play calls that won, per prize index
  drawLog,    \* history: observed draws <<weights, prize_count, low 8 bytes, outcome>>
  market_config,  \* marketplace Config account (PDA "config")
  listings,       \* marketplace Listing accounts by nft_mint (PDA "listing", nft_mint)
  tokens,         \* marketplace token ledger: balance of every <<owner, mint>> account
  quote           \* a price and, once computed, the amounts buy_nft derives from it

vars == <<config, game, prizes, sessions, balances, minted, result, wins, drawLog,
          market_config, listings, tokens, quote>>

marketVars == <<market_config, listings, tokens>>

gameVars == <<config, game, prizes, sessions, balances, minted, wins, drawLog>>

\* ------------------------------------------------------------------ Option<T>

None == <<>>

Some(x) == <<x>>

is_some(o) == o # <<>>

unwrap(o) == o[1]

\* ------------------------------------------------------------------ u16 / u32

saturating_add_u16(a, b) == IF a + b > 65535 THEN 65535 ELSE a + b

U32(n) == [hi |-> n \div 65536, lo |-> n % 65536]

U32_ZERO == [hi |-> 0, lo |-> 0]

U32_MAX == [hi |-> 65535, lo |-> 65535]

\* u32::MAX - 1
U32_NEAR_MAX == [hi |-> 65535, lo |-> 65534]

u32_gt0(a) == a.hi > 0 \/ a.lo > 0

u32_le(a, b) == a.hi < b.hi \/ (a.hi = b.hi /\ a.lo <= b.lo)

\* variant: an addition that wraps around
wrapping_add_u32(a, b) ==
  LET lo == a.lo + b.lo
      hi == a.hi + b.hi + (lo \div 65536)
  IN  Some([hi |-> hi % 65536, lo |-> lo % 65536])

\* u32::checked_add: None on overflow
checked_add_u32(a, b) ==
  LET lo == a.lo + b.lo
      hi == a.hi + b.hi + (lo \div 65536)
  IN  IF hi > 65535 THEN None ELSE Some([hi |-> hi, lo |-> lo % 65536])

\* variant: a subtraction that takes nothing away
sub_nothing_u32(a) == Some(a)

\* u32::checked_sub(1): None on underflow
checked_sub1_u32(a) ==
  IF a.hi = 0 /\ a.lo = 0 THEN None
  ELSE IF a.lo = 0 THEN Some([hi |-> a.hi - 1, lo |-> 65535])
  ELSE Some([hi |-> a.hi, lo |-> a.lo - 1])

\* u32::saturating_sub(1): clamps at 0
saturating_sub1_u32(a) ==
  IF a.hi = 0 /\ a.lo = 0 THEN a
  ELSE IF a.lo = 0 THEN [hi |-> a.hi - 1, lo |-> 65535]
  ELSE [hi |-> a.hi, lo |-> a.lo - 1]

\* ------------------------------------------------------------------ u64 and u128

\* A u64 is four 16-bit limbs and a u128 eight, least significant first.
LIMB == 65536

u64_from(n) == <<n % LIMB, (n \div LIMB) % LIMB, 0, 0>>

\* the value of a u64 below 2^31
u64_value(a) == a[1] + a[2] * LIMB

U64_MAX == <<65535, 65535, 65535, 65535>>

U128_MAX == U64_MAX \o U64_MAX

\* price as u128
u128_from_u64(a) == a \o <<0, 0, 0, 0>>

\* fee as u64: the low 64 bits
u64_from_u128(a) == SubSeq(a, 1, 4)

RECURSIVE MulCarry(_, _, _, _)
\* the limbs of a * k from limb i on, followed by the carry out of the last limb
MulCarry(a, k, i, carry) ==
  IF i > Len(a) THEN <<carry>>
  ELSE LET t == a[i] * k + carry IN
       <<t % LIMB>> \o MulCarry(a, k, i + 1, t \div LIMB)

\* variant: the product clamped at u64::MAX
saturating_mul_as_u64(a, k) ==
  LET wide == MulCarry(a, k, 1, 0) IN
  IF \E i \in 5..Len(wide) : wide[i] > 0 THEN u128_from_u64(U64_MAX)
  ELSE SubSeq(wide, 1, 8)

\* u128::saturating_mul by a u16 factor
saturating_mul_u128(a, k) ==
  LET wide == MulCarry(a, k, 1, 0) IN
  IF wide[9] > 0 THEN U128_MAX ELSE SubSeq(wide, 1, 8)

RECURSIVE RemAbove(_, _, _)
\* the remainder of the limbs from i upward divided by d
RemAbove(a, d, i) ==
  IF i > Len(a) THEN 0 ELSE (RemAbove(a, d, i + 1) * LIMB + a[i]) % d

\* u128::checked_div by a divisor of at most 16 bits: None when the divisor is 0
checked_div_u128(a, d) ==
  IF d = 0 THEN None
  ELSE Some([i \in 1..Len(a) |-> (RemAbove(a, d, i + 1) * LIMB + a[i]) \div d])

RECURSIVE Borrow(_, _, _)
\* the borrow taken from limb i by the limbs below it in a - b
Borrow(a, b, i) ==
  IF i = 1 THEN 0
  ELSE IF a[i - 1] - b[i - 1] - Borrow(a, b, i - 1) < 0 THEN 1 ELSE 0

\* u64::checked_sub: None when b > a
checked_sub_u64(a, b) ==
  IF Borrow(a, b, 5) = 1 THEN None
  ELSE Some([i \in 1..4 |-> (a[i] - b[i] - Borrow(a, b, i) + LIMB) % LIMB])

\* ------------------------------------------------------------------ random bytes

RECURSIVE Pow256Mod(_)
\* 256^i mod 10000
Pow256Mod(i) == IF i = 0 THEN 1 ELSE (Pow256Mod(i - 1) * 256) % BP_TOTAL

RECURSIVE LeBytesMod(_, _)
\* (b_1 + b_2 * 256 + ... + b_n * 256^(n-1)) mod 10000 of the first n bytes
LeBytesMod(bytes, n) ==
  IF n = 0 THEN 0
  ELSE (LeBytesMod(bytes, n - 1) + bytes[n] * Pow256Mod(n - 1)) % BP_TOTAL

\* u64::from_le_bytes(random_value[0..8]) % 10_000
draw_of(random_value) == LeBytesMod(random_value, 8)

\* a 32-byte value: the 8 given low bytes, then 24 bytes `tail`
Bytes32(low8, tail) == [i \in 1..32 |-> IF i <= 8 THEN low8[i] ELSE tail]

ZERO_BYTES == [i \in 1..32 |-> 0]

\* ------------------------------------------------------------------ draw resolver

RECURSIVE select_loop_closed(_, _, _, _, _)
\* variant: bands closed on the right (draw <= cumulative)
select_loop_closed(probabilities, prize_count, draw, idx, cumulative) ==
  IF idx >= prize_count THEN None
  ELSE LET prob == probabilities[idx] IN
       IF prob = 0
       THEN select_loop_closed(probabilities, prize_count, draw, idx + 1, cumulative)
       ELSE LET c == saturating_add_u16(cumulative, prob) IN
            IF draw <= c THEN Some(idx)
            ELSE select_loop_closed(probabilities, prize_count, draw, idx + 1, c)

RECURSIVE select_loop(_, _, _, _, _)
select_loop(probabilities, prize_count, draw, idx, cumulative) ==
  IF idx >= prize_count THEN None
  ELSE LET prob == probabilities[idx] IN
       IF prob = 0 THEN select_loop(probabilities, prize_count, draw, idx + 1, cumulative)
       ELSE LET c == saturating_add_u16(cumulative, prob) IN
            IF draw < c THEN Some(idx)
            ELSE select_loop(probabilities, prize_count, draw, idx + 1, c)

\* variant: a resolver that passes over the prizes whose own supply is exhausted
select_in_stock(probabilities, prize_count, random_value) ==
  LET in_stock(i) ==
        /\ "supply_remaining" \in DOMAIN prizes[i]
        /\ u32_gt0(prizes[i].supply_remaining)
      live == [i \in DOMAIN probabilities |-> IF in_stock(i) THEN probabilities[i] ELSE 0]
  IN  select_loop(live, prize_count, draw_of(random_value), 0, 0)

select_prize_index(probabilities, prize_count, random_value) ==
  select_loop(probabilities, prize_count, draw_of(random_value), 0, 0)

\* ------------------------------------------------------------------ keys and accounts

\* wallets
Users == {"admin", "treasury", "alice", "mallory"}

\* the one game PDA (seeds "game", game_id) and the denomination it is created with
GAME_KEY == "game_1"

GAME_MINT == "mint_game"

\* token accounts, with the owner and mint recorded in each
TokenAccounts == {"alice_ta", "treasury_ta", "mallory_ta", "foreign_ta"}

ta_owner ==
  [a \in TokenAccounts |->
     CASE a = "alice_ta" -> "alice"
       [] a = "treasury_ta" -> "treasury"
       [] a = "mallory_ta" -> "mallory"
       [] a = "foreign_ta" -> "treasury"]

ta_mint == [a \in TokenAccounts |-> IF a = "foreign_ta" THEN "mint_other" ELSE GAME_MINT]

PrizeSlots == 0..(MAX_PRIZES - 1)

Seeds == {"seed_a", "seed_b"}

\* play-session PDAs: seeds "session", game, user, session_seed
SessionKeys == {"alice"} \X Seeds

\* a closed or never created account
NoAccount == [lamports |-> 0]

\* ------------------------------------------------------------------ marketplace keys

PLATFORM_FEE_BPS == 200

Wallets == {"alice", "bob", "mallory", "platform"}

NftMints == {"nft_1", "nft_2"}

CurrencyMints == {"coin", "other"}

\* seeds = [b"escrow", nft_mint]: the escrow authority of an nft_mint
escrow_authority == [m \in NftMints |-> IF m = "nft_1" THEN "escrow_1" ELSE "escrow_2"]

\* a token account is the pair of its owner and its mint
MarketAccounts ==
  (Wallets \cup {escrow_authority[m] : m \in NftMints}) \X (NftMints \cup CurrencyMints)

account_owner(a) == a[1]

account_mint(a) == a[2]

associated_token(owner, mint) == <<owner, mint>>

\* one unit of each collectible exists; bob and mallory hold currency
InitialTokens ==
  [a \in MarketAccounts |->
     IF a = <<"alice", "nft_1">> \/ a = <<"bob", "nft_2">> THEN 1
     ELSE IF a = <<"bob", "coin">> THEN 1100
     ELSE IF a = <<"mallory", "coin">> THEN 1000
     ELSE 0]

\* ------------------------------------------------------------------ accounts as one value

\* the accounts an instruction may write, as one value
State ==
  [game |-> game, prizes |-> prizes, sessions |-> sessions,
   balances |-> balances, minted |-> minted]

Fail(e) == [err |-> e, st |-> State]

Done(s) == [err |-> "Ok", st |-> s]

\* the state after initialize_program signed by "admin"
Genesis ==
  /\ config = [authority |-> "admin"]
  /\ game = NoAccount
  /\ prizes = [i \in PrizeSlots |-> NoAccount]
  /\ sessions = [k \in SessionKeys |-> NoAccount]
  /\ balances = [a \in TokenAccounts |-> IF a = "alice_ta" THEN 2 ELSE 0]
  /\ minted = [o \in Users \X PrizeSlots |-> 0]
  /\ result = [op |-> "initialize_program", err |-> "Ok", args |-> <<"admin">>,
               was_active |-> FALSE]
  /\ wins = [i \in PrizeSlots |-> 0]
  /\ drawLog = {}
  /\ market_config = NoAccount
  /\ listings = [m \in NftMints |-> NoAccount]
  /\ tokens = InitialTokens

Init ==
  /\ Genesis
  /\ quote = [price |-> u64_from(0), amounts |-> None]

\* ------------------------------------------------------------------ initialize_game

initialize_game_call(signer, treasury, name_len) ==
  IF game # NoAccount THEN Fail("AccountInUse")
  ELSE IF signer # config.authority THEN Fail("Unauthorized")
  ELSE IF name_len > 50 THEN Fail("StringTooLong")
  ELSE Done([State EXCEPT !.game =
         [authority |-> signer,
          token_mint |-> GAME_MINT,
          treasury |-> treasury,
          prize_count |-> 0,
          prize_probabilities |-> [i \in PrizeSlots |-> 0],
          total_supply_remaining |-> U32_ZERO,
          total_plays |-> 0,
          is_active |-> FALSE,
          last_random_value |-> ZERO_BYTES]])

\* ------------------------------------------------------------------ add_prize

RECURSIVE SumTo(_, _)
\* probabilities[0] + ... + probabilities[n-1]
SumTo(probabilities, n) ==
  IF n = 0 THEN 0 ELSE SumTo(probabilities, n - 1) + probabilities[n - 1]

\* game.prize_probabilities.iter().map(|&p| p as u32).sum()
current_total(probabilities) == SumTo(probabilities, MAX_PRIZES)

\* variant: the budget test applied to the added weight alone
added_weight_only(probabilities, probability_bp) == probability_bp

\* current_total.checked_add(probability_bp as u32): two u16-bounded terms, no overflow
new_total(probabilities, probability_bp) == current_total(probabilities) + probability_bp

\* variant: the weight written to the first entry of the table
set_weight_first(probabilities, prize_index, probability_bp) ==
  [probabilities EXCEPT ![0] = probability_bp]

\* game.prize_probabilities[prize_index as usize] = probability_bp
set_weight(probabilities, prize_index, probability_bp) ==
  [probabilities EXCEPT ![prize_index] = probability_bp]

\* variant: a game activated by every added prize
activate_always(total_supply_remaining, is_active) == TRUE

\* variant: any index from the next one on
index_not_before_next(prize_index, prize_count) == prize_index >= prize_count

\* require!(prize_index == game.prize_count, ...) "Must add sequentially"
index_is_next(prize_index, prize_count) == prize_index = prize_count

\* "Activate game if it has prizes with supply"
activate_on_add(total_supply_remaining, is_active) ==
  IF u32_gt0(total_supply_remaining) THEN TRUE ELSE is_active

add_prize_call(signer, prize_index, probability_bp, supply_total, name_len) ==
  IF game = NoAccount THEN Fail("AccountNotInitialized")
  ELSE IF prize_index \in PrizeSlots /\ prizes[prize_index] # NoAccount THEN Fail("AccountInUse")
  ELSE IF game.authority # signer THEN Fail("Unauthorized")
  ELSE IF ~(prize_index < MAX_PRIZES) THEN Fail("TooManyPrizes")
  ELSE IF ~index_is_next(prize_index, game.prize_count) THEN Fail("InvalidPrizeIndex")
  ELSE IF name_len > 50 THEN Fail("StringTooLong")
  ELSE IF ~(new_total(game.prize_probabilities, probability_bp) <= BP_TOTAL)
       THEN Fail("InvalidProbabilities")
  ELSE LET new_supply == checked_add_u32(game.total_supply_remaining, supply_total) IN
       IF ~is_some(new_supply) THEN Fail("MathOverflow")
       ELSE Done([State EXCEPT
              !.prizes[prize_index] =
                 [game |-> GAME_KEY,
                  prize_index |-> prize_index,
                  probability_bp |-> probability_bp,
                  supply_total |-> supply_total,
                  supply_remaining |-> supply_total],
              !.game.prize_probabilities = set_weight(@, prize_index, probability_bp),
              !.game.prize_count = prize_index + 1,
              !.game.total_supply_remaining = unwrap(new_supply),
              !.game.is_active = activate_on_add(unwrap(new_supply), game.is_active)])

\* ------------------------------------------------------------------ play_game

\* token_interface::transfer_checked: None when the source balance is too small
transfer_checked(bal, from, to, amount) ==
  IF bal[from] < amount THEN None
  ELSE IF from = to THEN Some(bal)
  ELSE Some([bal EXCEPT ![from] = bal[from] - amount, ![to] = bal[to] + amount])

\* "Initialize play session - awaiting backend finalization"
new_play_session(user, session_seed, token_amount) ==
  [user |-> user,
   game |-> GAME_KEY,
   amount_paid |-> token_amount,
   session_seed |-> session_seed,
   is_fulfilled |-> FALSE,
   random_value |-> ZERO_BYTES,
   prize_index |-> None,
   is_claimed |-> FALSE]

\* variant: the guards of play_game without the amount test
play_game_guard_no_amount(is_active, total_supply_remaining, token_amount) ==
  IF ~is_active THEN "GameInactive"
  ELSE IF ~u32_gt0(total_supply_remaining) THEN "OutOfStock"
  ELSE "Ok"

\* variant: a session account that may be initialised again
session_slot_any(session) == TRUE

\* #[account(init, ...)] play_session: the PDA must not exist yet
session_slot_free(session) == session = NoAccount

\* the three require! guards that open play_game
play_game_guard(is_active, total_supply_remaining, token_amount) ==
  IF ~is_active THEN "GameInactive"
  ELSE IF ~u32_gt0(total_supply_remaining) THEN "OutOfStock"
  ELSE IF ~(token_amount > 0) THEN "InvalidTokenAmount"
  ELSE "Ok"

play_game_call(user, session_seed, token_amount, user_token_account, treasury_token_account) ==
  IF game = NoAccount THEN Fail("AccountNotInitialized")
  ELSE IF ~session_slot_free(sessions[<<user, session_seed>>]) THEN Fail("AccountInUse")
  ELSE LET guard == play_game_guard(game.is_active, game.total_supply_remaining,
                                    token_amount) IN
  IF guard # "Ok" THEN Fail(guard)
  ELSE IF ta_owner[user_token_account] # user THEN Fail("Unauthorized")
  ELSE IF ta_mint[user_token_account] # game.token_mint THEN Fail("Unauthorized")
  ELSE IF ta_mint[treasury_token_account] # game.token_mint THEN Fail("Unauthorized")
  ELSE LET moved == transfer_checked(balances, user_token_account,
                                     treasury_token_account, token_amount) IN
       IF ~is_some(moved) THEN Fail("InsufficientFunds")
       ELSE Done([State EXCEPT
              !.balances = unwrap(moved),
              !.sessions[<<user, session_seed>>] =
                 new_play_session(user, session_seed, token_amount)])

\* ------------------------------------------------------------------ update_game_status

update_game_status_call(signer, is_active) ==
  IF game = NoAccount THEN Fail("AccountNotInitialized")
  ELSE IF game.authority # signer THEN Fail("ConstraintHasOne")
  ELSE Done([State EXCEPT !.game.is_active = is_active])

\* ------------------------------------------------------------------ withdraw_treasury

\* variant: any signer accepted as the treasury
treasury_any(treasury, game_treasury) == TRUE

\* has_one = treasury, constraint = treasury.key() == game.treasury @ Unauthorized
treasury_is_recorded(treasury, game_treasury) == treasury = game_treasury

\* authority and treasury are the two signers of the instruction
withdraw_treasury_call(authority, treasury, treasury_token_account, destination_token_account, amount) ==
  IF game = NoAccount THEN Fail("AccountNotInitialized")
  ELSE IF game.authority # authority THEN Fail("ConstraintHasOne")
  ELSE IF ~treasury_is_recorded(treasury, game.treasury) THEN Fail("Unauthorized")
  ELSE IF ta_mint[treasury_token_account] # game.token_mint THEN Fail("Unauthorized")
  ELSE IF ta_owner[treasury_token_account] # treasury THEN Fail("Unauthorized")
  ELSE IF ta_mint[destination_token_account] # game.token_mint THEN Fail("Unauthorized")
  ELSE LET moved == transfer_checked(balances, treasury_token_account,
                                     destination_token_account, amount) IN
       IF ~is_some(moved) THEN Fail("InsufficientFunds")
       ELSE Done([State EXCEPT !.balances = unwrap(moved)])

\* ------------------------------------------------------------------ replenish_prize_supply

\* "if additional_supply > 0 && !game.is_active { game.is_active = true; }"
\* variant: a replenishment that leaves is_active as it was
replenish_keeps_status(additional_supply, is_active) == is_active

reactivate_on_replenish(additional_supply, is_active) ==
  IF u32_gt0(additional_supply) /\ ~is_active THEN TRUE ELSE is_active

replenish_prize_supply_call(signer, slot, additional_supply) ==
  IF game = NoAccount THEN Fail("AccountNotInitialized")
  ELSE IF game.authority # signer THEN Fail("ConstraintHasOne")
  ELSE IF prizes[slot] = NoAccount THEN Fail("AccountNotInitialized")
  ELSE IF prizes[slot].game # GAME_KEY THEN Fail("Unauthorized")
  ELSE LET total == checked_add_u32(prizes[slot].supply_total, additional_supply)
           remaining == checked_add_u32(prizes[slot].supply_remaining, additional_supply)
           game_total == checked_add_u32(game.total_supply_remaining, additional_supply)
       IN IF ~is_some(total) \/ ~is_some(remaining) \/ ~is_some(game_total)
          THEN Fail("MathOverflow")
          ELSE Done([State EXCEPT
                 !.prizes[slot].supply_total = unwrap(total),
                 !.prizes[slot].supply_remaining = unwrap(remaining),
                 !.game.total_supply_remaining = unwrap(game_total),
                 !.game.is_active = reactivate_on_replenish(additional_supply, game.is_active)])

\* ------------------------------------------------------------------ finalize_play

\* variant: no fulfilment test
session_always_open(session) == TRUE

\* variant: no stock test
prize_any_stock(prize) == TRUE

\* variant: the active flag left as it is when the supply runs out
keep_active(total_supply_remaining, is_active) == is_active

\* require!(!session_is_fulfilled, ErrorCode::AlreadyFulfilled)
session_open(session) == ~session.is_fulfilled

\* require!(prize.supply_remaining > 0, ErrorCode::OutOfStock)
prize_in_stock(prize) == u32_gt0(prize.supply_remaining)

\* variant: any signer accepted as the backend
backend_any(signer, authority) == TRUE

\* constraint = backend_authority.key() == config.authority @ ErrorCode::Unauthorized
backend_authorized(signer, authority) == signer = authority

\* variant: no test of the recipient
recipient_any(user_account, user_key) == TRUE

\* require!(user_account.key() == user_key, ErrorCode::Unauthorized)
recipient_ok(user_account, user_key) == user_account = user_key

\* "if game.total_supply_remaining == 0 { game.is_active = false; }"
deactivate_if_empty(total_supply_remaining, is_active) ==
  IF ~u32_gt0(total_supply_remaining) THEN FALSE ELSE is_active

\* The win branch of finalize_play: validation of the prize account passed in
\* remaining_accounts[0], the supply decrement, and the inline mint of one unit to the
\* associated token account of user_account.  prize_account = None stands for fewer than 11
\* remaining accounts; issuer_ok = FALSE for a failing mint CPI.  The record returned
\* with an error holds what the handler had written when it returned.
finalize_win(st, user_key, prize_idx, prize_account, user_account, issuer_ok) ==
  IF ~is_some(prize_account) THEN [err |-> "PrizeNotFound", st |-> st]
  ELSE LET slot == unwrap(prize_account) IN
  IF st.prizes[slot] = NoAccount THEN [err |-> "AccountDidNotDeserialize", st |-> st]
  ELSE LET prize == st.prizes[slot] IN
  IF prize.game # GAME_KEY THEN [err |-> "Unauthorized", st |-> st]
  ELSE IF prize.prize_index # prize_idx THEN [err |-> "PrizeNotFound", st |-> st]
  ELSE IF ~prize_in_stock(prize) THEN [err |-> "OutOfStock", st |-> st]
  ELSE LET left == checked_sub1_u32(prize.supply_remaining) IN
  IF ~is_some(left) THEN [err |-> "MathOverflow", st |-> st]
  ELSE LET written == [st EXCEPT !.prizes[slot].supply_remaining = unwrap(left)] IN
  IF ~recipient_ok(user_account, user_key) THEN [err |-> "Unauthorized", st |-> written]
  ELSE IF ~issuer_ok THEN [err |-> "IssuerFailure", st |-> written]
  ELSE [err |-> "Ok",
        st |-> [written EXCEPT !.minted[<<user_account, prize_idx>>] = @ + 1]]

\* variant: a resolution that is not counted
count_nothing(total_plays) == total_plays

\* game.total_plays = game.total_plays.checked_add(1)
count_play(total_plays) == total_plays + 1

\* variant: a win that leaves is_claimed as it was
claimed_as_before(winning_index, is_claimed) == is_claimed

\* if let Some(prize_idx) = winning_index { ... session.is_claimed = true; }
claimed_on_win(winning_index, is_claimed) ==
  IF is_some(winning_index) THEN TRUE ELSE is_claimed

\* variant: an error that leaves the writes made so far in place
abort_keeping_writes(o) == o

\* An error returned after the handler has written: the instruction is rolled back.
abort(o) == Fail(o.err)

\* total_plays is a u64 raised by 1 per call: its checked_add cannot fail within any
\* bound on the number of calls, and is written as a plain addition.
finalize_play_call(signer, key, random_value, prize_account, user_account, issuer_ok) ==
  IF sessions[key] = NoAccount \/ game = NoAccount THEN Fail("AccountNotInitialized")
  ELSE IF sessions[key].game # GAME_KEY THEN Fail("Unauthorized")
  ELSE IF ~backend_authorized(signer, config.authority) THEN Fail("Unauthorized")
  ELSE
  LET user_key == sessions[key].user
      total_supply == game.total_supply_remaining
  IN
  IF ~session_open(sessions[key]) THEN Fail("AlreadyFulfilled")
  ELSE
  LET winning_index == select_prize_index(game.prize_probabilities, game.prize_count,
                                          random_value)
      won == IF is_some(winning_index)
             THEN finalize_win(State, user_key, unwrap(winning_index),
                               prize_account, user_account, issuer_ok)
             ELSE [err |-> "Ok", st |-> State]
  IN
  IF won.err # "Ok" THEN abort(won)
  ELSE
  LET supply_left == saturating_sub1_u32(total_supply) IN
  Done([won.st EXCEPT
     !.sessions[key].is_fulfilled = TRUE,
     !.sessions[key].random_value = random_value,
     !.sessions[key].prize_index = winning_index,
     !.sessions[key].is_claimed = claimed_on_win(winning_index, @),
     !.game.total_plays = count_play(@),
     !.game.last_random_value = random_value,
     !.game.total_supply_remaining = IF is_some(winning_index) THEN supply_left ELSE @,
     !.game.is_active =
        IF is_some(winning_index) THEN deactivate_if_empty(supply_left, @) ELSE @])

\* ------------------------------------------------------------------ claim_prize

\* variant: a claim that does not look at is_claimed
claim_guard_repeatable(session) ==
  IF ~session.is_fulfilled THEN "NotFulfilled"
  ELSE IF ~is_some(session.prize_index) THEN "NoPrize"
  ELSE "Ok"

\* "Validate session state"
claim_prize_guard(session) ==
  IF ~session.is_fulfilled THEN "NotFulfilled"
  ELSE IF ~is_some(session.prize_index) THEN "NoPrize"
  ELSE IF session.is_claimed THEN "AlreadyClaimed"
  ELSE "Ok"

\* issuer_ok = FALSE stands for a failing mint in mint_prize_nft_for_claim
claim_prize_call(signer, key, slot, issuer_ok) ==
  IF sessions[key] = NoAccount \/ game = NoAccount \/ prizes[slot] = NoAccount
  THEN Fail("AccountNotInitialized")
  ELSE IF sessions[key].game # GAME_KEY THEN Fail("Unauthorized")
  ELSE IF sessions[key].user # signer THEN Fail("Unauthorized")
  ELSE IF prizes[slot].game # GAME_KEY THEN Fail("Unauthorized")
  ELSE LET guard == claim_prize_guard(sessions[key]) IN
  IF guard # "Ok" THEN Fail(guard)
  ELSE IF prizes[slot].prize_index # unwrap(sessions[key].prize_index)
       THEN Fail("PrizeNotFound")
  ELSE IF ~issuer_ok THEN Fail("IssuerFailure")
  ELSE Done([State EXCEPT
         !.minted[<<signer, unwrap(sessions[key].prize_index)>>] = @ + 1,
         !.sessions[key].is_claimed = TRUE])

\* ------------------------------------------------------------------ update_program_authority

\* has_one = authority @ Unauthorized; the outcome is the authority Config then holds
update_program_authority_call(signer, new_authority) ==
  IF config.authority # signer
  THEN [err |-> "Unauthorized", authority |-> config.authority]
  ELSE [err |-> "Ok", authority |-> new_authority]

\* ------------------------------------------------------------------ close_*

\* variant: a close that does not ask for fulfilment
close_guard_any_state(session) ==
  IF is_some(session.prize_index) /\ ~session.is_claimed THEN "NotClaimed" ELSE "Ok"

\* "Can only close if fulfilled and either claimed or lost"
close_play_session_guard(session) ==
  IF ~session.is_fulfilled THEN "NotFulfilled"
  ELSE IF is_some(session.prize_index) /\ ~session.is_claimed THEN "NotClaimed"
  ELSE "Ok"

close_play_session_call(signer, key) ==
  IF sessions[key] = NoAccount THEN Fail("AccountNotInitialized")
  ELSE IF sessions[key].user # signer THEN Fail("Unauthorized")
  ELSE LET guard == close_play_session_guard(sessions[key]) IN
  IF guard # "Ok" THEN Fail(guard)
  ELSE Done([State EXCEPT !.sessions[key] = NoAccount])

close_prize_call(signer, slot) ==
  IF game = NoAccount THEN Fail("AccountNotInitialized")
  ELSE IF game.authority # signer THEN Fail("Unauthorized")
  ELSE IF prizes[slot] = NoAccount THEN Fail("AccountNotInitialized")
  ELSE IF prizes[slot].game # GAME_KEY THEN Fail("ConstraintRaw")
  ELSE Done([State EXCEPT !.prizes[slot] = NoAccount])

close_game_call(signer) ==
  IF game = NoAccount THEN Fail("AccountNotInitialized")
  ELSE IF game.authority # signer THEN Fail("Unauthorized")
  ELSE Done([State EXCEPT !.game = NoAccount])

\* ------------------------------------------------------------------ steps

\* An instruction's outcome becomes the next state.  A failed instruction is rolled
\* back by the runtime: the state after it differs from the state before only in
\* `result`, so it has the accounts, hence the successors, of the state before.  Those
\* successors are explored once, from the state whose last instruction succeeded.
\* ------------------------------------------------------------------ marketplace

\* the marketplace accounts an instruction may write, as one value
MarketState == [config |-> market_config, listings |-> listings, tokens |-> tokens]

MarketFail(e) == [err |-> e, st |-> MarketState]

MarketDone(s) == [err |-> "Ok", st |-> s]

\* token::transfer: None when the source balance is too small
transfer(tok, from, to, amount) ==
  IF tok[from] < amount THEN None
  ELSE IF from = to THEN Some(tok)
  ELSE Some([tok EXCEPT ![from] = tok[from] - amount, ![to] = tok[to] + amount])

initialize_config_call(admin, platform_treasury) ==
  IF market_config # NoAccount THEN MarketFail("AccountInUse")
  ELSE MarketDone([MarketState EXCEPT
         !.config = [authority |-> admin, platform_treasury |-> platform_treasury]])

update_config_call(admin, new_platform_treasury, new_authority) ==
  IF market_config = NoAccount THEN MarketFail("AccountNotInitialized")
  ELSE IF market_config.authority # admin THEN MarketFail("Unauthorized")
  ELSE MarketDone([MarketState EXCEPT
         !.config.platform_treasury =
            IF is_some(new_platform_treasury) THEN unwrap(new_platform_treasury) ELSE @,
         !.config.authority =
            IF is_some(new_authority) THEN unwrap(new_authority) ELSE @])

\* variant: any price accepted
price_any(price_in_tokens) == TRUE

\* require!(price_in_tokens > 0, ErrorCode::InvalidPrice)
price_valid(price_in_tokens) == price_in_tokens > 0

new_listing(seller, nft_mint, currency_mint, price_in_tokens, now) ==
  [seller |-> seller,
   nft_mint |-> nft_mint,
   currency_mint |-> currency_mint,
   price_in_tokens |-> price_in_tokens,
   is_active |-> TRUE,
   listed_at |-> now,
   cancelled_at |-> None,
   sold_at |-> None,
   buyer |-> None]

\* variant: the listing account of a finished listing may be initialised again
listing_slot_reusable(listing) ==
  IF listing = NoAccount THEN TRUE ELSE ~listing.is_active

\* init, seeds = [b"listing", nft_mint]: the account must not exist yet
listing_slot_free(listing) == listing = NoAccount

\* The listing is created (init) while the accounts are loaded, before the handler
\* runs; the seller's token account and the escrow account are those of nft_mint.
list_nft_call(seller, nft_mint, currency_mint, price_in_tokens, now) ==
  IF ~listing_slot_free(listings[nft_mint]) THEN MarketFail("AccountInUse")
  ELSE IF ~price_valid(price_in_tokens) THEN MarketFail("InvalidPrice")
  ELSE LET moved == transfer(tokens, associated_token(seller, nft_mint),
                             associated_token(escrow_authority[nft_mint], nft_mint), 1)
       IN IF ~is_some(moved) THEN MarketFail("InsufficientFunds")
          ELSE MarketDone([MarketState EXCEPT
                 !.listings[nft_mint] =
                    new_listing(seller, nft_mint, currency_mint, price_in_tokens, now),
                 !.tokens = unwrap(moved)])

\* variant: any signer accepted as the seller
seller_any(listing, seller) == TRUE

\* has_one = seller
seller_is_recorded(listing, seller) == listing.seller = seller

\* variant: an inactive listing accepted
listing_any(listing) == TRUE

\* require!(listing.is_active, ErrorCode::ListingInactive)
listing_active(listing) == listing.is_active

mark_cancelled(listing, now) ==
  [listing EXCEPT !.is_active = FALSE, !.cancelled_at = Some(now)]

cancel_listing_call(seller, nft_mint, now) ==
  IF listings[nft_mint] = NoAccount THEN MarketFail("AccountNotInitialized")
  ELSE LET listing == listings[nft_mint] IN
  IF ~seller_is_recorded(listing, seller) THEN MarketFail("ConstraintHasOne")
  ELSE IF ~listing_active(listing) THEN MarketFail("ListingInactive")
  ELSE LET moved == transfer(tokens,
                             associated_token(escrow_authority[listing.nft_mint],
                                              listing.nft_mint),
                             associated_token(seller, listing.nft_mint), 1)
       IN IF ~is_some(moved) THEN MarketFail("InsufficientFunds")
          ELSE MarketDone([MarketState EXCEPT
                 !.listings[nft_mint] = mark_cancelled(listing, now),
                 !.tokens = unwrap(moved)])

\* fee = price * PLATFORM_FEE_BPS / 10_000, computed in u128
buy_nft_amounts(price) ==
  LET fee128 == checked_div_u128(
                  saturating_mul_u128(u128_from_u64(price), PLATFORM_FEE_BPS), 10000)
  IN
  IF ~is_some(fee128) THEN [err |-> "MathOverflow", fee |-> None, seller_amount |-> None]
  ELSE LET fee == u64_from_u128(unwrap(fee128))
           seller_amount == checked_sub_u64(price, fee)
       IN IF ~is_some(seller_amount)
          THEN [err |-> "MathOverflow", fee |-> fee, seller_amount |-> None]
          ELSE [err |-> "Ok", fee |-> fee, seller_amount |-> unwrap(seller_amount)]

\* variant: a sale that records no buyer
mark_sold_no_buyer(listing, buyer, now) ==
  [listing EXCEPT !.is_active = FALSE, !.sold_at = Some(now)]

mark_sold(listing, buyer, now) ==
  [listing EXCEPT !.is_active = FALSE, !.sold_at = Some(now), !.buyer = Some(buyer)]

\* The buyer's currency account and collectible account are the buyer's associated
\* accounts; the seller's and the platform's currency accounts are the caller's choice.
buy_nft_call(buyer, nft_mint, currency_mint, seller_currency_token_account, platform_treasury_currency_token_account, now) ==
  IF listings[nft_mint] = NoAccount \/ market_config = NoAccount
  THEN MarketFail("AccountNotInitialized")
  ELSE LET listing == listings[nft_mint] IN
  IF account_mint(seller_currency_token_account) # currency_mint
  THEN MarketFail("ConstraintRaw")
  ELSE IF account_mint(platform_treasury_currency_token_account) # currency_mint
  THEN MarketFail("ConstraintRaw")
  ELSE IF ~listing_active(listing) THEN MarketFail("ListingInactive")
  ELSE IF currency_mint # listing.currency_mint THEN MarketFail("InvalidCurrency")
  ELSE IF account_owner(platform_treasury_currency_token_account)
            # market_config.platform_treasury
  THEN MarketFail("Unauthorized")
  ELSE
  LET price == listing.price_in_tokens
      amounts == buy_nft_amounts(u64_from(price))
  IN
  IF amounts.err # "Ok" THEN MarketFail(amounts.err)
  ELSE
  LET fee == u64_value(amounts.fee)
      seller_amount == u64_value(amounts.seller_amount)
      buyer_currency_token_account == associated_token(buyer, currency_mint)
      paid == transfer(tokens, buyer_currency_token_account,
                       seller_currency_token_account, seller_amount)
  IN
  IF ~is_some(paid) THEN MarketFail("InsufficientFunds")
  ELSE
  LET fee_paid == transfer(unwrap(paid), buyer_currency_token_account,
                           platform_treasury_currency_token_account, fee)
  IN
  IF ~is_some(fee_paid) THEN MarketFail("InsufficientFunds")
  ELSE
  LET delivered == transfer(unwrap(fee_paid),
                            associated_token(escrow_authority[listing.nft_mint],
                                             listing.nft_mint),
                            associated_token(buyer, listing.nft_mint), 1)
  IN
  IF ~is_some(delivered) THEN MarketFail("InsufficientFunds")
  ELSE MarketDone([MarketState EXCEPT
         !.listings[nft_mint] = mark_sold(listing, buyer, now),
         !.tokens = unwrap(delivered)])

update_listing_price_call(seller, nft_mint, new_price_in_tokens) ==
  IF listings[nft_mint] = NoAccount THEN MarketFail("AccountNotInitialized")
  ELSE LET listing == listings[nft_mint] IN
  IF ~seller_is_recorded(listing, seller) THEN MarketFail("ConstraintHasOne")
  ELSE IF ~listing_active(listing) THEN MarketFail("ListingInactive")
  ELSE IF ~price_valid(new_price_in_tokens) THEN MarketFail("InvalidPrice")
  ELSE MarketDone([MarketState EXCEPT
         !.listings[nft_mint].price_in_tokens = new_price_in_tokens])

\* admin and treasury_authority are the two signers of the instruction
withdraw_platform_fees_call(admin, treasury_authority, platform_treasury_token_account, destination_token_account, amount) ==
  IF market_config = NoAccount THEN MarketFail("AccountNotInitialized")
  ELSE IF market_config.authority # admin THEN MarketFail("Unauthorized")
  ELSE IF account_owner(platform_treasury_token_account) # treasury_authority
  THEN MarketFail("ConstraintRaw")
  ELSE IF account_owner(platform_treasury_token_account) # market_config.platform_treasury
  THEN MarketFail("ConstraintRaw")
  ELSE IF account_mint(destination_token_account)
            # account_mint(platform_treasury_token_account)
  THEN MarketFail("ConstraintRaw")
  ELSE LET moved == transfer(tokens, platform_treasury_token_account,
                             destination_token_account, amount)
       IN IF ~is_some(moved) THEN MarketFail("InsufficientFunds")
          ELSE MarketDone([MarketState EXCEPT !.tokens = unwrap(moved)])

\* ------------------------------------------------------------------ one instruction

\* game.is_active as the instruction finds it
found_active == IF game = NoAccount THEN FALSE ELSE game.is_active

Commit(op, args, o) ==
  /\ result.err = "Ok"
  /\ result' = [op |-> op, err |-> o.err, args |-> args, was_active |-> found_active]
  /\ game' = o.st.game
  /\ prizes' = o.st.prizes
  /\ sessions' = o.st.sessions
  /\ balances' = o.st.balances
  /\ minted' = o.st.minted
  /\ UNCHANGED config
  /\ UNCHANGED marketVars
  /\ UNCHANGED quote

\* What a finalize_play call shows of the draw: the inputs of the resolver (weight
\* table, prize_count, the 8 low bytes), its outcome (the prize index the call recorded,
\* or the index of the prize account it rejected as out of stock, which the handler
\* compares with the resolver's index first), and the rest of the state of the call.
Observed(c, o) ==
  LET entry(outcome) ==
        [weights |-> game.prize_probabilities,
         prize_count |-> game.prize_count,
         low8 |-> SubSeq(c[3], 1, 8),
         outcome |-> outcome,
         tail |-> SubSeq(c[3], 9, 32),
         supplies |-> [i \in 0..(MaxPrizeCount - 1) |->
                         IF prizes[i] = NoAccount THEN None
                         ELSE Some(prizes[i].supply_remaining)],
         is_active |-> game.is_active,
         total_plays |-> game.total_plays,
         user |-> sessions[c[2]].user,
         amount_paid |-> sessions[c[2]].amount_paid]
  IN  IF o.err = "Ok" THEN {entry(o.st.sessions[c[2]].prize_index)}
      ELSE IF o.err = "OutOfStock" THEN {entry(Some(prizes[unwrap(c[4])].prize_index))}
      ELSE {}

WinsAfter(c, o) ==
  IF o.err = "Ok" /\ is_some(o.st.sessions[c[2]].prize_index)
  THEN [wins EXCEPT ![unwrap(o.st.sessions[c[2]].prize_index)] = @ + 1]
  ELSE wins

\* ------------------------------------------------------------------ inputs

\* "admin" is the program authority; "mallory" signs where she has no right to
Signers == {"admin", "mallory"}

SupplyArgs == {U32(0), U32(1), U32(2)}

PrizeIndexArgs == (0..MaxPrizeCount) \cup {MAX_PRIZES}

PrizeAccountArgs == {None} \cup {Some(i) : i \in 0..(MaxPrizeCount - 1)}

RV_2999 == Bytes32(<<183, 11, 0, 0, 0, 0, 0, 0>>, 0)

RV_3000 == Bytes32(<<184, 11, 0, 0, 0, 0, 0, 0>>, 0)

RV_4999 == Bytes32(<<135, 19, 0, 0, 0, 0, 0, 0>>, 0)

RV_5000 == Bytes32(<<136, 19, 0, 0, 0, 0, 0, 0>>, 0)

\* the low 8 bytes of RV_2999 followed by a different tail
RV_2999_TAIL == Bytes32(<<183, 11, 0, 0, 0, 0, 0, 0>>, 255)

\* 2999 + 2^56: the top byte of the u64 is set
RV_HIGH == Bytes32(<<183, 11, 0, 0, 0, 0, 0, 1>>, 0)

\* calls of initialize_game: <<signer, treasury, name_len>>
InitializeGameCalls ==
  {<<"admin", "treasury", 50>>, <<"mallory", "treasury", 50>>, <<"admin", "treasury", 51>>}

\* calls of add_prize: <<signer, prize_index, probability_bp, supply_total, name_len>>
AddPrizeCalls(probs, supplies) ==
  ({"admin"} \X PrizeIndexArgs \X probs \X supplies \X {50})
    \cup {<<"mallory", 0, 5000, U32(1), 50>>, <<"admin", 0, 5000, U32(1), 51>>}

\* calls of play_game:
\* <<user, session_seed, token_amount, user_token_account, treasury_token_account>>
PlayGameCalls(seeds) ==
  ({"alice"} \X seeds \X {0, 1} \X {"alice_ta"} \X {"treasury_ta", "mallory_ta"})
    \cup ({"alice"} \X seeds \X {2} \X {"alice_ta"} \X {"treasury_ta"})
    \cup ({"alice"} \X seeds \X {1} \X {"alice_ta"} \X {"alice_ta", "foreign_ta"})
    \cup ({"alice"} \X seeds \X {1} \X {"mallory_ta", "foreign_ta"} \X {"treasury_ta"})

\* calls of finalize_play:
\* <<signer, session key, random_value, prize_account, user_account, issuer_ok>>
FinalizePlayCalls(seeds, randoms) ==
  LET keys == {"alice"} \X seeds IN
  ({"admin"} \X keys \X randoms \X PrizeAccountArgs \X {"alice"} \X {TRUE})
    \cup ({"mallory"} \X keys \X randoms \X {Some(0)} \X {"alice"} \X {TRUE})
    \cup ({"admin"} \X keys \X randoms \X {Some(0)} \X {"mallory"} \X {TRUE})
    \cup ({"admin"} \X keys \X randoms \X {Some(0)} \X {"alice"} \X {FALSE})

\* ------------------------------------------------------------------ actions

InitializeGame ==
  /\ \E c \in InitializeGameCalls :
       Commit("initialize_game", c, initialize_game_call(c[1], c[2], c[3]))
  /\ UNCHANGED <<wins, drawLog>>

AddPrize(probs, supplies) ==
  /\ IF game = NoAccount THEN TRUE ELSE game.prize_count < MaxPrizeCount
  /\ \E c \in AddPrizeCalls(probs, supplies) :
       Commit("add_prize", c, add_prize_call(c[1], c[2], c[3], c[4], c[5]))
  /\ UNCHANGED <<wins, drawLog>>

\* add_prize up to the capacity of the table
AddPrizeAt(calls) ==
  /\ \E c \in calls :
       Commit("add_prize", c, add_prize_call(c[1], c[2], c[3], c[4], c[5]))
  /\ UNCHANGED <<wins, drawLog>>

PlayGame(calls) ==
  /\ \E c \in calls :
       Commit("play_game", c, play_game_call(c[1], c[2], c[3], c[4], c[5]))
  /\ UNCHANGED <<wins, drawLog>>

UpdateGameStatus ==
  /\ \E c \in Signers \X BOOLEAN :
       Commit("update_game_status", c, update_game_status_call(c[1], c[2]))
  /\ UNCHANGED <<wins, drawLog>>

ReplenishPrizeSupply(supplies) ==
  /\ \E c \in Signers \X (0..(MaxPrizeCount - 1)) \X supplies :
       /\ IF prizes[c[2]] = NoAccount THEN TRUE
          ELSE IF prizes[c[2]].supply_total.hi > 0 \/ c[3].hi > 0 THEN TRUE
          ELSE prizes[c[2]].supply_total.lo + c[3].lo <= MaxSupply
       /\ Commit("replenish_prize_supply", c,
                 replenish_prize_supply_call(c[1], c[2], c[3]))
  /\ UNCHANGED <<wins, drawLog>>

\* finalize_play; `audited` keeps the log of observed draws
FinalizePlay(calls, audited) ==
  /\ IF game = NoAccount THEN TRUE ELSE game.total_plays < MaxPlays
  /\ \E c \in calls :
       LET o == finalize_play_call(c[1], c[2], c[3], c[4], c[5], c[6]) IN
       /\ Commit("finalize_play", c, o)
       /\ wins' = WinsAfter(c, o)
       /\ drawLog' = IF audited THEN drawLog \cup Observed(c, o) ELSE drawLog

ClosePlaySession(seeds) ==
  /\ \E c \in {"alice", "mallory"} \X ({"alice"} \X seeds) :
       Commit("close_play_session", c, close_play_session_call(c[1], c[2]))
  /\ UNCHANGED <<wins, drawLog>>

ClaimPrize(seeds) ==
  /\ \E c \in {"alice", "mallory"} \X ({"alice"} \X seeds)
                 \X (0..(MaxPrizeCount - 1)) \X {TRUE} :
       Commit("claim_prize", c, claim_prize_call(c[1], c[2], c[3], c[4]))
  /\ UNCHANGED <<wins, drawLog>>

UpdateProgramAuthority(authorities) ==
  /\ \E c \in Signers \X authorities :
       LET o == update_program_authority_call(c[1], c[2]) IN
       /\ result.err = "Ok"
       /\ result' = [op |-> "update_program_authority", err |-> o.err, args |-> c,
                     was_active |-> found_active]
       /\ config' = [config EXCEPT !.authority = o.authority]
  /\ UNCHANGED <<game, prizes, sessions, balances, minted, wins, drawLog>>
  /\ UNCHANGED marketVars
  /\ UNCHANGED quote

\* calls: <<authority, treasury, treasury_token_account, destination, amount>>
WithdrawTreasury(calls) ==
  /\ \E c \in calls :
       Commit("withdraw_treasury", c, withdraw_treasury_call(c[1], c[2], c[3], c[4], c[5]))
  /\ UNCHANGED <<wins, drawLog>>

ClosePrize ==
  /\ \E c \in Signers \X (0..(MaxPrizeCount - 1)) :
       Commit("close_prize", c, close_prize_call(c[1], c[2]))
  /\ UNCHANGED <<wins, drawLog>>

CloseGame ==
  /\ \E c \in Signers \X {GAME_KEY} : Commit("close_game", c, close_game_call(c[1]))
  /\ UNCHANGED <<wins, drawLog>>

\* ------------------------------------------------------------------ specifications

\* The game life cycle, one play session at a time.
Next ==
  \/ InitializeGame
  \/ AddPrize({5000, 6000}, SupplyArgs)
  \/ PlayGame(PlayGameCalls({"seed_a"}))
  \/ UpdateGameStatus
  \/ ReplenishPrizeSupply(SupplyArgs)
  \/ FinalizePlay(FinalizePlayCalls({"seed_a"}, {RV_4999, RV_5000}), FALSE)
  \/ ClosePlaySession({"seed_a"})

Spec == Init /\ [][Next]_vars

\* The draw: every weight table over DrawProbs, every random value of DrawRandoms,
\* one paying player, the backend authority finalizing, and the log of observed draws.
DrawProbs == {0, 2000, 3000}

DrawRandoms == {RV_2999, RV_3000, RV_5000, RV_2999_TAIL, RV_HIGH}

DrawPlayCalls == {<<"alice", "seed_a", 1, "alice_ta", "treasury_ta">>}

DrawFinalizeCalls ==
  {"admin"} \X {<<"alice", "seed_a">>} \X DrawRandoms \X PrizeAccountArgs \X {"alice"} \X {TRUE}

NextDraw ==
  \/ InitializeGame
  \/ AddPrize(DrawProbs, {U32(1)})
  \/ PlayGame(DrawPlayCalls)
  \/ UpdateGameStatus
  \/ FinalizePlay(DrawFinalizeCalls, TRUE)
  \/ ClosePlaySession({"seed_a"})

SpecDraw == Init /\ [][NextDraw]_vars

\* The backend authority: the program authority handed over and back while one player
\* plays; the old authority, the new one and the player each try to finalize.
AuthorityFinalizeCalls ==
  {"admin", "mallory", "alice"} \X {<<"alice", "seed_a">>} \X {RV_4999, RV_5000}
    \X {Some(0)} \X {"alice"} \X {TRUE}

NextAuthority ==
  \/ InitializeGame
  \/ AddPrize({5000}, {U32(1)})
  \/ PlayGame(PlayGameCalls({"seed_a"}))
  \/ UpdateProgramAuthority(Signers)
  \/ FinalizePlay(AuthorityFinalizeCalls, FALSE)

SpecAuthority == Init /\ [][NextAuthority]_vars

\* The session life cycle: two sessions of one player open at the same time, each
\* played, finalized, claimed and closed.
SessionPlayCalls == {"alice"} \X Seeds \X {0, 1} \X {"alice_ta"} \X {"treasury_ta"}

SessionFinalizeCalls ==
  ({"admin"} \X SessionKeys \X {RV_4999, RV_5000} \X PrizeAccountArgs \X {"alice"} \X {TRUE})
    \cup ({"mallory"} \X SessionKeys \X {RV_5000} \X {None} \X {"alice"} \X {TRUE})

NextSession ==
  \/ InitializeGame
  \/ AddPrize({5000, 10000}, {U32(1)})
  \/ PlayGame(SessionPlayCalls)
  \/ FinalizePlay(SessionFinalizeCalls, FALSE)
  \/ ClaimPrize(Seeds)
  \/ ClosePlaySession(Seeds)

SpecSession == Init /\ [][NextSession]_vars

\* The table filled to its capacity: sixteen prizes of weight 625 added in order, every
\* index from 0 to 17 tried at every length, the first prizes closed at any time.
TableCalls ==
  ({"admin"} \X (0..(MAX_PRIZES + 1)) \X {625} \X {U32(1)} \X {50})
    \cup {<<"mallory", 0, 625, U32(1), 50>>, <<"mallory", 1, 625, U32(1), 50>>}

NextTable ==
  \/ InitializeGame
  \/ AddPrizeAt(TableCalls)
  \/ ClosePrize

SpecTable == Init /\ [][NextTable]_vars

\* The supply counters at the top of the u32 range.
OverflowFinalizeCalls ==
  {"admin"} \X {<<"alice", "seed_a">>} \X {RV_4999} \X PrizeAccountArgs \X {"alice"} \X {TRUE}

NextOverflow ==
  \/ InitializeGame
  \/ AddPrize({5000}, {U32(0), U32(1), U32_NEAR_MAX})
  \/ PlayGame(DrawPlayCalls)
  \/ FinalizePlay(OverflowFinalizeCalls, FALSE)
  \/ ReplenishPrizeSupply({U32(0), U32(1), U32_MAX})

SpecOverflow == Init /\ [][NextOverflow]_vars

\* Closing the game while sessions are open.
CloseFinalizeCalls ==
  {"admin"} \X SessionKeys \X {RV_4999, RV_5000} \X PrizeAccountArgs \X {"alice"} \X {TRUE}

NextClose ==
  \/ InitializeGame
  \/ AddPrize({5000}, {U32(1)})
  \/ PlayGame(SessionPlayCalls)
  \/ FinalizePlay(CloseFinalizeCalls, FALSE)
  \/ ClosePlaySession(Seeds)
  \/ ClosePrize
  \/ CloseGame

SpecClose == Init /\ [][NextClose]_vars

\* The treasury: fees collected by play_game and withdrawn by the two signers.
WithdrawCalls ==
  ({"admin", "mallory"} \X {"treasury", "mallory"} \X {"treasury_ta", "mallory_ta"}
     \X {"alice_ta", "mallory_ta"} \X {0, 1, 3})
    \cup ({"admin"} \X {"treasury"} \X {"treasury_ta", "foreign_ta"}
            \X {"alice_ta", "foreign_ta", "treasury_ta"} \X {1})

NextTreasury ==
  \/ InitializeGame
  \/ AddPrize({5000}, {U32(2)})
  \/ PlayGame(PlayGameCalls(Seeds))
  \/ FinalizePlay(OverflowFinalizeCalls, FALSE)
  \/ WithdrawTreasury(WithdrawCalls)

SpecTreasury == Init /\ [][NextTreasury]_vars

\* An instruction of the marketplace program: the accounts of the failed instruction
\* are those of the state before it.
MarketCommit(op, args, o) ==
  /\ result.err = "Ok"
  /\ result' = [op |-> op, err |-> o.err, args |-> args, was_active |-> found_active]
  /\ market_config' = o.st.config
  /\ listings' = o.st.listings
  /\ tokens' = o.st.tokens
  /\ UNCHANGED quote

\* Clock::get()?.unix_timestamp
Times == {1, 2}

\* calls: <<admin, platform_treasury>>
InitializeConfig ==
  /\ \E c \in {<<"admin", "platform">>} :
       MarketCommit("initialize_config", c, initialize_config_call(c[1], c[2]))
  /\ UNCHANGED gameVars

\* calls: <<admin, new_platform_treasury, new_authority>>
UpdateConfigCalls ==
  {<<"admin", Some("mallory"), None>>, <<"admin", Some("platform"), Some("admin")>>,
   <<"mallory", Some("mallory"), Some("mallory")>>}

UpdateConfig ==
  /\ \E c \in UpdateConfigCalls :
       MarketCommit("update_config", c, update_config_call(c[1], c[2], c[3]))
  /\ UNCHANGED gameVars

ListPrices == {0, 40, 1000}

\* calls: <<seller, nft_mint, currency_mint, price_in_tokens, now>>
ListNftCalls ==
  ({"alice"} \X {"nft_1"} \X {"coin"} \X ListPrices \X {1})
    \cup {<<"alice", "nft_1", "other", 40, 2>>, <<"bob", "nft_1", "coin", 40, 1>>,
          <<"bob", "nft_2", "coin", 1000, 1>>, <<"mallory", "nft_2", "coin", 0, 2>>}

ListNft ==
  /\ \E c \in ListNftCalls :
       MarketCommit("list_nft", c, list_nft_call(c[1], c[2], c[3], c[4], c[5]))
  /\ UNCHANGED gameVars

\* calls: <<seller, nft_mint, now>>
CancelListingCalls ==
  ({"alice", "bob", "mallory"} \X {"nft_1"} \X {2})
    \cup {<<"alice", "nft_1", 1>>, <<"bob", "nft_2", 2>>}

CancelListing ==
  /\ \E c \in CancelListingCalls :
       MarketCommit("cancel_listing", c, cancel_listing_call(c[1], c[2], c[3]))
  /\ UNCHANGED gameVars

\* calls: <<buyer, nft_mint, currency_mint, seller_currency_token_account,
\*          platform_treasury_currency_token_account, now>>
BuyNftCalls ==
  ({"alice", "bob", "mallory"} \X {"nft_1"} \X {"coin"}
      \X {<<"alice", "coin">>, <<"bob", "coin">>} \X {<<"platform", "coin">>} \X {2})
    \cup ({"bob"} \X {"nft_1"} \X {"coin"} \X {<<"alice", "coin">>}
            \X {<<"mallory", "coin">>, <<"platform", "other">>} \X {1})
    \cup ({"bob"} \X {"nft_1"} \X {"coin", "other"}
            \X {<<"alice", "other">>} \X {<<"platform", "other">>} \X {1})
    \cup {<<"mallory", "nft_2", "coin", <<"bob", "coin">>, <<"platform", "coin">>, 1>>}

BuyNft ==
  /\ \E c \in BuyNftCalls :
       MarketCommit("buy_nft", c, buy_nft_call(c[1], c[2], c[3], c[4], c[5], c[6]))
  /\ UNCHANGED gameVars

\* calls: <<seller, nft_mint, new_price_in_tokens>>
UpdateListingPriceCalls ==
  ({"alice", "bob"} \X {"nft_1"} \X {0, 2000}) \cup {<<"bob", "nft_2", 0>>}

UpdateListingPrice ==
  /\ \E c \in UpdateListingPriceCalls :
       MarketCommit("update_listing_price", c,
                    update_listing_price_call(c[1], c[2], c[3]))
  /\ UNCHANGED gameVars

\* calls: <<admin, treasury_authority, platform_treasury_token_account,
\*          destination_token_account, amount>>
WithdrawPlatformFeesCalls ==
  {<<"admin", "platform", <<"platform", "coin">>, <<"alice", "coin">>, 20>>,
   <<"mallory", "platform", <<"platform", "coin">>, <<"mallory", "coin">>, 20>>,
   <<"admin", "mallory", <<"platform", "coin">>, <<"mallory", "coin">>, 20>>,
   <<"admin", "platform", <<"platform", "coin">>, <<"alice", "other">>, 20>>}

WithdrawPlatformFees ==
  /\ \E c \in WithdrawPlatformFeesCalls :
       MarketCommit("withdraw_platform_fees", c,
                    withdraw_platform_fees_call(c[1], c[2], c[3], c[4], c[5]))
  /\ UNCHANGED gameVars

NextMarket ==
  \/ InitializeConfig
  \/ UpdateConfig
  \/ ListNft
  \/ CancelListing
  \/ BuyNft
  \/ UpdateListingPrice
  \/ WithdrawPlatformFees

SpecMarket == Init /\ [][NextMarket]_vars

\* The amounts of buy_nft over the 64-bit range of prices.
FeeLimbs == {0, 1, 65535}

FeePrices ==
  {<<a, 0, 0, 0>> : a \in 0..1000}
    \cup ({49, 50, 9999, 10000, 65535} \X FeeLimbs \X FeeLimbs \X FeeLimbs)

InitFee ==
  /\ Genesis
  /\ \E p \in FeePrices : quote = [price |-> p, amounts |-> None]

\* let price = listing.price_in_tokens; let fee = ...; let seller_amount = ...
QuoteFee ==
  /\ quote.amounts = None
  /\ quote' = [quote EXCEPT !.amounts = Some(buy_nft_amounts(quote.price))]
  /\ UNCHANGED <<result, gameVars, marketVars>>

NextFee == QuoteFee

SpecFee == InitFee /\ [][NextFee]_vars

\* ------------------------------------------------------------------ properties

\* the accounts are what they were before the step
AccountsUnchanged == UNCHANGED <<game, prizes, sessions, balances, minted>>

\* the value of a u32 plus a small natural number, as a u32
U32Plus(a, n) == [hi |-> a.hi + ((a.lo + n) \div 65536), lo |-> (a.lo + n) % 65536]

\* the step is a call of instruction op (its arguments are result'.args)
Calls(op) == result'.op = op

\* C1: a finalize_play on a session that is already fulfilled never succeeds and
\* leaves every account as it was (the session's prize_index, random_value and
\* is_claimed, the game's total_plays and supply, every prize's supply); signed by the
\* backend authority it fails with AlreadyFulfilled.  Hence a session is finalized at
\* most once.
C1_FinalizeOnce ==
  [][ (/\ Calls("finalize_play")
       /\ game # NoAccount
       /\ sessions[result'.args[2]] # NoAccount
       /\ sessions[result'.args[2]].is_fulfilled)
      => /\ result'.err # "Ok"
         /\ AccountsUnchanged
         /\ (result'.args[1] = config.authority => result'.err = "AlreadyFulfilled")
    ]_vars

C1_Witness ==
  /\ result.op = "finalize_play"
  /\ result.err = "AlreadyFulfilled"
  /\ sessions[result.args[2]].is_fulfilled

\* C2: after every step the weights recorded in the game sum to at most 10000, and an
\* add_prize whose weight would take the sum above 10000 never succeeds and changes
\* no account; when it passes the validations that come first (authority, free
\* prize slot, index, name length) it fails with InvalidProbabilities.
C2_ProbabilityBudget ==
  [][ /\ (game' # NoAccount => SumTo(game'.prize_probabilities, MAX_PRIZES) <= BP_TOTAL)
      /\ (/\ Calls("add_prize")
          /\ game # NoAccount
          /\ SumTo(game.prize_probabilities, MAX_PRIZES) + result'.args[3] > BP_TOTAL)
         => /\ result'.err # "Ok"
            /\ AccountsUnchanged
            /\ (/\ result'.args[1] = game.authority
                /\ result'.args[2] = game.prize_count
                /\ result'.args[2] < MAX_PRIZES
                /\ prizes[result'.args[2]] = NoAccount
                /\ result'.args[5] <= 50)
               => result'.err = "InvalidProbabilities"
    ]_vars

C2_Witness ==
  /\ result.op = "add_prize"
  /\ result.err = "InvalidProbabilities"
  /\ SumTo(game.prize_probabilities, MAX_PRIZES) = 5000
  /\ result.args[3] = 6000

\* the finalize_play of this step succeeded and won prize i
WonNow(i) ==
  /\ result'.err = "Ok"
  /\ sessions'[result'.args[2]].prize_index = Some(i)

\* C5: a finalize_play never raises a prize's supply_remaining: it lowers it by
\* exactly 1, from a positive value, when the call wins that prize, and leaves it as it
\* is otherwise (another prize won, a loss, a failed call); supply_remaining is never
\* negative; and supply_remaining plus the number of wins of the prize always equals
\* supply_total (the initial supply plus what was replenished), so it is 0 only after
\* exactly that many wins.
C5_SupplyLedger ==
  [][ /\ \A i \in PrizeSlots :
           prizes'[i] # NoAccount =>
             /\ prizes'[i].supply_remaining.hi \in 0..65535
             /\ prizes'[i].supply_remaining.lo \in 0..65535
             /\ U32Plus(prizes'[i].supply_remaining, wins'[i]) = prizes'[i].supply_total
      /\ Calls("finalize_play") =>
           \A i \in PrizeSlots :
             prizes[i] # NoAccount =>
               /\ prizes'[i] # NoAccount
               /\ u32_le(prizes'[i].supply_remaining, prizes[i].supply_remaining)
               /\ IF WonNow(i)
                  THEN /\ u32_gt0(prizes[i].supply_remaining)
                       /\ U32Plus(prizes'[i].supply_remaining, 1) = prizes[i].supply_remaining
                  ELSE prizes'[i].supply_remaining = prizes[i].supply_remaining
    ]_vars

C5_Witness ==
  \E i \in PrizeSlots :
    /\ prizes[i] # NoAccount
    /\ prizes[i].supply_total = U32(2)
    /\ prizes[i].supply_remaining = U32_ZERO
    /\ wins[i] = 2
    /\ result.op = "finalize_play"
    /\ result.err = "Ok"

\* the finalize_play of this step is on a pending session and its draw selects prize i
DrawSelects(i) ==
  /\ Calls("finalize_play")
  /\ game # NoAccount
  /\ sessions[result'.args[2]] # NoAccount
  /\ ~sessions[result'.args[2]].is_fulfilled
  /\ select_prize_index(game.prize_probabilities, game.prize_count, result'.args[3])
       = Some(i)

\* C6: a finalize_play on a pending session whose draw selects a prize with
\* supply_remaining = 0 never succeeds and is not recorded as a loss: every account is
\* as before (the session stays pending with no prize_index; total_plays,
\* last_random_value, game supply and prize supply unchanged); signed by the backend
\* authority and given that prize's account it fails with OutOfStock.
C6_DepletedPrizeRejected ==
  [][ \A i \in PrizeSlots :
        (/\ DrawSelects(i)
         /\ prizes[i] # NoAccount
         /\ prizes[i].supply_remaining = U32_ZERO)
        => /\ result'.err # "Ok"
           /\ AccountsUnchanged
           /\ ~sessions'[result'.args[2]].is_fulfilled
           /\ sessions'[result'.args[2]].prize_index = None
           /\ (result'.args[1] = config.authority /\ result'.args[4] = Some(i))
                => result'.err = "OutOfStock"
    ]_vars

C6_Witness ==
  /\ result.op = "finalize_play"
  /\ result.err = "OutOfStock"
  /\ ~sessions[result.args[2]].is_fulfilled
  /\ sessions[result.args[2]].prize_index = None
  /\ prizes[unwrap(result.args[4])].supply_remaining = U32_ZERO

\* C7: in every reachable state, the game is not active while its
\* total_supply_remaining is 0.
C7_NeverActiveWhileEmpty ==
  game # NoAccount => ~(game.total_supply_remaining = U32_ZERO /\ game.is_active)

\* C8: a successful finalize_play that takes the game's total_supply_remaining from a
\* positive value to 0 leaves is_active false; a successful replenish_prize_supply of
\* a positive amount on an inactive game whose total is 0 leaves is_active true and the
\* total positive; and with one prize of weight 5000 and supply 1, a successful
\* finalize_play with draw 4999 records index 0, leaves that prize's supply_remaining
\* at 0 and the game inactive.
C8_AutoActivation ==
  [][ /\ (/\ Calls("finalize_play")
          /\ result'.err = "Ok"
          /\ u32_gt0(game.total_supply_remaining)
          /\ game'.total_supply_remaining = U32_ZERO)
         => ~game'.is_active
      /\ (/\ Calls("replenish_prize_supply")
          /\ result'.err = "Ok"
          /\ u32_gt0(result'.args[3])
          /\ game.total_supply_remaining = U32_ZERO
          /\ ~game.is_active)
         => /\ game'.is_active
            /\ u32_gt0(game'.total_supply_remaining)
      /\ (/\ Calls("finalize_play")
          /\ result'.err = "Ok"
          /\ game.prize_count = 1
          /\ game.prize_probabilities[0] = 5000
          /\ prizes[0] # NoAccount
          /\ prizes[0].supply_remaining = U32(1)
          /\ game.total_supply_remaining = U32(1)
          /\ draw_of(result'.args[3]) = 4999)
         => /\ sessions'[result'.args[2]].prize_index = Some(0)
            /\ prizes'[0].supply_remaining = U32_ZERO
            /\ game'.total_supply_remaining = U32_ZERO
            /\ ~game'.is_active
    ]_vars

C8_Witness ==
  /\ result.op = "finalize_play"
  /\ result.err = "Ok"
  /\ draw_of(result.args[3]) = 4999
  /\ game.prize_count = 1
  /\ game.prize_probabilities[0] = 5000
  /\ prizes[0].supply_total = U32(1)
  /\ prizes[0].supply_remaining = U32_ZERO
  /\ sessions[result.args[2]].prize_index = Some(0)
  /\ ~game.is_active

\* C9: a play_game on an existing game, for a session that does not exist yet, fails
\* with GameInactive when the game is inactive, with OutOfStock when the game is active
\* and its total_supply_remaining is 0, and with InvalidTokenAmount when the game is
\* active and stocked and token_amount is 0; a failed play_game moves no tokens and
\* creates no session.  A successful one creates a pending session: is_fulfilled
\* false, prize_index absent, is_claimed false, amount_paid = token_amount, user = the
\* signer, who owns the paying token account.
C9_PlayGameGuards ==
  [][ (/\ Calls("play_game")
       /\ game # NoAccount
       /\ sessions[<<result'.args[1], result'.args[2]>>] = NoAccount)
      => /\ ~game.is_active => result'.err = "GameInactive"
         /\ (game.is_active /\ game.total_supply_remaining = U32_ZERO)
              => result'.err = "OutOfStock"
         /\ (/\ game.is_active
             /\ u32_gt0(game.total_supply_remaining)
             /\ result'.args[3] = 0)
              => result'.err = "InvalidTokenAmount"
         /\ result'.err # "Ok" => UNCHANGED <<balances, sessions>>
         /\ result'.err = "Ok" =>
              LET session == sessions'[<<result'.args[1], result'.args[2]>>] IN
              /\ session # NoAccount
              /\ ~session.is_fulfilled
              /\ session.prize_index = None
              /\ ~session.is_claimed
              /\ session.amount_paid = result'.args[3]
              /\ session.user = result'.args[1]
              /\ ta_owner[result'.args[4]] = result'.args[1]
    ]_vars

C9_Witness ==
  /\ result.op = "play_game"
  /\ result.err = "OutOfStock"
  /\ game.is_active
  /\ game.total_supply_remaining = U32_ZERO
  /\ sessions[<<result.args[1], result.args[2]>>] = NoAccount

RECURSIVE SumBalances(_, _)
\* the sum of bal over the token accounts in `accounts`
SumBalances(bal, accounts) ==
  IF accounts = {} THEN 0
  ELSE LET a == CHOOSE x \in accounts : TRUE IN bal[a] + SumBalances(bal, accounts \ {a})

\* the tokens of the game's mint held by wallet `owner`
OwnedBalance(bal, owner) ==
  SumBalances(bal, {a \in TokenAccounts : ta_owner[a] = owner /\ ta_mint[a] = GAME_MINT})

\* C10: every successful play_game(token_amount) raises the balance owned by the
\* game's recorded treasury by exactly token_amount and lowers the player's balance by
\* exactly token_amount, whatever destination token account the call is given.
C10_FeeReachesTreasury ==
  [][ (Calls("play_game") /\ result'.err = "Ok")
      => /\ OwnedBalance(balances', game.treasury)
              = OwnedBalance(balances, game.treasury) + result'.args[3]
         /\ OwnedBalance(balances', result'.args[1])
              = OwnedBalance(balances, result'.args[1]) - result'.args[3]
    ]_vars

RECURSIVE HornerMod(_, _, _)
\* the little-endian value of bytes[1..n] mod 10000, most significant byte first
HornerMod(bytes, n, acc) ==
  IF n = 0 THEN acc ELSE HornerMod(bytes, n - 1, (acc * 256 + bytes[n]) % BP_TOTAL)

\* the reference: the least index below prize_count whose weight is positive and whose
\* band [weight_0 + ... + weight_(i-1), weight_0 + ... + weight_i) holds the draw
ReferenceIndex(weights, prize_count, random_value) ==
  LET draw == HornerMod(random_value, 8, 0)
      hits == {i \in 0..(prize_count - 1) : weights[i] > 0 /\ draw < SumTo(weights, i + 1)}
  IN  IF hits = {} THEN None ELSE Some(CHOOSE i \in hits : \A j \in hits : i <= j)

\* weights 3000 and 2000
ScenarioTable == [i \in PrizeSlots |-> IF i = 0 THEN 3000 ELSE IF i = 1 THEN 2000 ELSE 0]

\* C3: on every weight table a game reaches and every random value,
\* select_prize_index equals the reference (draw = the first 8 bytes as a little-endian
\* u64, mod 10000; result = the least index i < prize_count with weight_i > 0 and
\* draw < weight_0 + ... + weight_i, else None); it never returns a zero-weight entry
\* or an index >= prize_count; with weights [3000, 2000] draw 2999 gives 0, draw 3000
\* gives 1 and draw 5000 gives a loss; and the session a finalize_play has just
\* fulfilled holds the reference's outcome for the game's table (which finalize_play
\* does not write) and the call's random value.
C3_DrawResolver ==
  game # NoAccount =>
    /\ \A rv \in DrawRandoms :
         LET r == select_prize_index(game.prize_probabilities, game.prize_count, rv) IN
         /\ r = ReferenceIndex(game.prize_probabilities, game.prize_count, rv)
         /\ is_some(r) => /\ unwrap(r) < game.prize_count
                          /\ game.prize_probabilities[unwrap(r)] > 0
    /\ (game.prize_probabilities = ScenarioTable /\ game.prize_count = 2)
       => /\ draw_of(RV_2999) = 2999
          /\ select_prize_index(game.prize_probabilities, 2, RV_2999) = Some(0)
          /\ draw_of(RV_3000) = 3000
          /\ select_prize_index(game.prize_probabilities, 2, RV_3000) = Some(1)
          /\ draw_of(RV_5000) = 5000
          /\ select_prize_index(game.prize_probabilities, 2, RV_5000) = None
    /\ (result.op = "finalize_play" /\ result.err = "Ok")
       => sessions[result.args[2]].prize_index
            = ReferenceIndex(game.prize_probabilities, game.prize_count, result.args[3])

C3_Witness ==
  /\ result.op = "finalize_play"
  /\ result.err = "Ok"
  /\ game.prize_probabilities = ScenarioTable
  /\ game.prize_count = 2
  /\ draw_of(result.args[3]) = 3000
  /\ sessions[result.args[2]].prize_index = Some(1)

\* C4: any two observed draws with the same weight table, prize_count and 8 low
\* random bytes have the same outcome, whatever else differs between the two calls
\* (prize supplies, is_active, total_plays, the session's player and amount, bytes
\* 8..31 of the random value).
C4_DrawDeterminism ==
  \A a, b \in drawLog :
    (/\ a.weights = b.weights
     /\ a.prize_count = b.prize_count
     /\ a.low8 = b.low8)
    => a.outcome = b.outcome

C4_Witness ==
  \E a, b \in drawLog :
    /\ a.weights = b.weights
    /\ a.prize_count = b.prize_count
    /\ a.low8 = b.low8
    /\ is_some(a.outcome)
    /\ a.tail # b.tail
    /\ a.supplies # b.supplies
    /\ a.is_active # b.is_active
    /\ a.total_plays # b.total_plays

\* C11: a finalize_play succeeds only when signed by the authority Config holds at
\* that moment (set by initialize_program or the latest update_program_authority) and
\* only on an existing, not yet fulfilled session; a session comes into existence only
\* through a successful play_game with a positive token_amount whose token transfer was
\* made in that same step and which leaves the random value and outcome unset, so the
\* fee transfer comes strictly before the outcome is fixed; and a finalize_play signed
\* by the session's player, when the player is not the authority, fails and changes
\* nothing.
C11_BackendFixesOutcome ==
  [][ /\ (Calls("finalize_play") /\ result'.err = "Ok")
         => /\ result'.args[1] = config.authority
            /\ sessions[result'.args[2]] # NoAccount
            /\ ~sessions[result'.args[2]].is_fulfilled
            /\ sessions[result'.args[2]].random_value = ZERO_BYTES
            /\ sessions[result'.args[2]].prize_index = None
      /\ \A k \in SessionKeys :
           (sessions[k] = NoAccount /\ sessions'[k] # NoAccount)
           => /\ Calls("play_game")
              /\ result'.err = "Ok"
              /\ k = <<result'.args[1], result'.args[2]>>
              /\ result'.args[3] > 0
              /\ Some(balances') = transfer_checked(balances, result'.args[4],
                                                    result'.args[5], result'.args[3])
              /\ ~sessions'[k].is_fulfilled
              /\ sessions'[k].random_value = ZERO_BYTES
              /\ sessions'[k].prize_index = None
      /\ (/\ Calls("finalize_play")
          /\ sessions[result'.args[2]] # NoAccount
          /\ result'.args[1] = sessions[result'.args[2]].user
          /\ result'.args[1] # config.authority)
         => /\ result'.err = "Unauthorized"
            /\ AccountsUnchanged
    ]_vars

C11_Witness ==
  /\ result.op = "finalize_play"
  /\ result.err = "Ok"
  /\ config.authority = "mallory"
  /\ result.args[1] = "mallory"
  /\ sessions[result.args[2]].is_fulfilled
  /\ sessions[result.args[2]].amount_paid > 0

\* C12: a successful finalize_play whose draw wins prize i issues exactly one
\* collectible of prize i, to the player recorded in the session (session.user) and not
\* to the signer or anyone else, and leaves the session fulfilled with prize_index = i
\* and is_claimed true; one whose draw is a loss issues no collectible, changes no
\* prize and no game supply, and leaves prize_index absent and is_claimed false.
C12_InlineIssuance ==
  [][ (Calls("finalize_play") /\ result'.err = "Ok")
      => LET k == result'.args[2]
             r == select_prize_index(game.prize_probabilities, game.prize_count,
                                     result'.args[3])
         IN  /\ sessions'[k].is_fulfilled
             /\ sessions'[k].prize_index = r
             /\ sessions'[k].user = sessions[k].user
             /\ IF is_some(r)
                THEN /\ minted' = [minted EXCEPT ![<<sessions[k].user, unwrap(r)>>] = @ + 1]
                     /\ sessions'[k].is_claimed
                ELSE /\ minted' = minted
                     /\ prizes' = prizes
                     /\ game'.total_supply_remaining = game.total_supply_remaining
                     /\ ~sessions'[k].is_claimed
    ]_vars

C12_Witness ==
  /\ result.op = "finalize_play"
  /\ result.err = "Ok"
  /\ sessions[result.args[2]].prize_index = Some(0)
  /\ sessions[result.args[2]].is_claimed
  /\ result.args[1] # sessions[result.args[2]].user
  /\ minted[<<sessions[result.args[2]].user, 0>>] = 1
  /\ \A o \in Users \X PrizeSlots : o # <<sessions[result.args[2]].user, 0>> => minted[o] = 0

\* C13: a claim_prize never succeeds on a pending session, on a session resolved as
\* a loss, or on a session whose is_claimed is true; it issues no collectible and
\* changes no account; called by the session's player it fails with NotFulfilled,
\* NoPrize and AlreadyClaimed respectively.
C13_ClaimGuards ==
  [][ (/\ Calls("claim_prize")
       /\ game # NoAccount
       /\ sessions[result'.args[2]] # NoAccount
       /\ prizes[result'.args[3]] # NoAccount)
      => LET session == sessions[result'.args[2]]
             own == result'.args[1] = session.user
         IN  /\ ~session.is_fulfilled
                  => /\ result'.err # "Ok" /\ AccountsUnchanged
                     /\ own => result'.err = "NotFulfilled"
             /\ (session.is_fulfilled /\ session.prize_index = None)
                  => /\ result'.err # "Ok" /\ AccountsUnchanged
                     /\ own => result'.err = "NoPrize"
             /\ (session.is_fulfilled /\ is_some(session.prize_index) /\ session.is_claimed)
                  => /\ result'.err # "Ok" /\ AccountsUnchanged
                     /\ own => result'.err = "AlreadyClaimed"
    ]_vars

C13_Witness ==
  /\ result.op = "claim_prize"
  /\ result.err = "AlreadyClaimed"
  /\ sessions[result.args[2]].is_claimed
  /\ minted[<<"alice", unwrap(sessions[result.args[2]].prize_index)>>] = 1

\* every content a session account can have, as far as close_play_session reads it
SessionShapes ==
  {[new_play_session("alice", "seed_a", 1) EXCEPT
      !.is_fulfilled = f, !.prize_index = p, !.is_claimed = c] :
     f \in BOOLEAN, p \in {None, Some(0), Some(1)}, c \in BOOLEAN}

\* C14: a close_play_session on a pending session never succeeds and fails with
\* NotFulfilled for the session's player; on a session with a winning prize_index and
\* is_claimed false the guard answers NotClaimed; a close_play_session that succeeds is
\* signed by the session's own player, on a session that is fulfilled and either lost
\* or claimed, and closes that session only.
C14_CloseGuards ==
  [][ /\ \A session \in SessionShapes :
           /\ ~session.is_fulfilled => close_play_session_guard(session) = "NotFulfilled"
           /\ (session.is_fulfilled /\ is_some(session.prize_index) /\ ~session.is_claimed)
                => close_play_session_guard(session) = "NotClaimed"
      /\ (Calls("close_play_session") /\ sessions[result'.args[2]] # NoAccount)
         => LET session == sessions[result'.args[2]]
                own == result'.args[1] = session.user
            IN  /\ ~session.is_fulfilled
                     => /\ result'.err # "Ok" /\ AccountsUnchanged
                        /\ own => result'.err = "NotFulfilled"
                /\ (session.is_fulfilled /\ is_some(session.prize_index)
                      /\ ~session.is_claimed)
                     => /\ result'.err # "Ok" /\ AccountsUnchanged
                        /\ own => result'.err = "NotClaimed"
                /\ result'.err = "Ok"
                     => /\ own
                        /\ session.is_fulfilled
                        /\ session.prize_index = None \/ session.is_claimed
                        /\ sessions' = [sessions EXCEPT ![result'.args[2]] = NoAccount]
                        /\ UNCHANGED <<game, prizes, balances, minted>>
    ]_vars

C14_Witness ==
  /\ result.op = "close_play_session"
  /\ result.err = "NotFulfilled"
  /\ result.args[1] = sessions[result.args[2]].user
  /\ ~sessions[result.args[2]].is_fulfilled

\* C15: every session moves forward only.  While its account exists, is_fulfilled and
\* is_claimed never go from true to false and, once fulfilled, random_value and
\* prize_index never change; is_claimed implies is_fulfilled with a winning
\* prize_index; a pending session changes only through a successful finalize_play on
\* it (no timeout, cancel or refund, and no close while pending); and a session account
\* disappears only through a successful close_play_session on a fulfilled session.
C15_SessionForwardOnly ==
  [][ \A k \in SessionKeys :
        /\ sessions'[k] # NoAccount
             => (sessions'[k].is_claimed
                   => sessions'[k].is_fulfilled /\ is_some(sessions'[k].prize_index))
        /\ (sessions[k] # NoAccount /\ sessions'[k] # NoAccount)
             => /\ sessions[k].is_fulfilled => sessions'[k].is_fulfilled
                /\ sessions[k].is_claimed => sessions'[k].is_claimed
                /\ sessions[k].is_fulfilled
                     => /\ sessions'[k].random_value = sessions[k].random_value
                        /\ sessions'[k].prize_index = sessions[k].prize_index
                /\ sessions'[k].user = sessions[k].user
                /\ sessions'[k].amount_paid = sessions[k].amount_paid
        /\ (/\ sessions[k] # NoAccount
            /\ ~sessions[k].is_fulfilled
            /\ sessions'[k] # sessions[k])
             => /\ Calls("finalize_play")
                /\ result'.err = "Ok"
                /\ result'.args[2] = k
                /\ sessions'[k] # NoAccount
                /\ sessions'[k].is_fulfilled
        /\ (sessions[k] # NoAccount /\ sessions'[k] = NoAccount)
             => /\ Calls("close_play_session")
                /\ result'.err = "Ok"
                /\ result'.args[2] = k
                /\ sessions[k].is_fulfilled
    ]_vars

C15_Witness ==
  /\ result.op = "play_game"
  /\ result.err = "Ok"
  /\ game.total_plays = 1
  /\ wins[0] = 1
  /\ ~sessions[<<result.args[1], result.args[2]>>].is_fulfilled
  /\ minted[<<"alice", 0>>] = 1

\* a 32-byte random value whose first 8 bytes, read as a little-endian u64, are d
DrawBytes(d) == Bytes32(<<d % 256, d \div 256, 0, 0, 0, 0, 0, 0>>, 0)

\* C16: for every session that is still pending there is a random value with which a
\* finalize_play by the backend authority succeeds (every residue mod 10000 of the
\* draw and every prize account are tried).
C16_PendingCanResolve ==
  \A k \in SessionKeys :
    (sessions[k] # NoAccount /\ ~sessions[k].is_fulfilled /\ game # NoAccount)
    => \E d \in 0..(BP_TOTAL - 1), prize_account \in PrizeAccountArgs :
         finalize_play_call(config.authority, k, DrawBytes(d), prize_account,
                            sessions[k].user, TRUE).err = "Ok"

\* C17: every observed draw selects the index the weight table and the draw value
\* give, whatever the supplies are at that moment: a draw in the band of a depleted
\* prize still selects that prize (and is rejected), never a later prize, and a draw
\* in any other band keeps its winner.
C17_NoRedistribution ==
  \A e \in drawLog :
    /\ e.outcome = ReferenceIndex(e.weights, e.prize_count, e.low8)
    /\ \A f \in drawLog :
         (/\ f.weights = e.weights
          /\ f.prize_count = e.prize_count
          /\ HornerMod(f.low8, 8, 0) = HornerMod(e.low8, 8, 0))
         => f.outcome = e.outcome

C17_Witness ==
  \E e \in drawLog :
    /\ e.prize_count = 2
    /\ e.outcome = Some(0)
    /\ e.supplies[0] = Some(U32_ZERO)
    /\ e.weights[1] > 0
    /\ e.supplies[1] = Some(U32(1))

\* C18 (as claimed): an add_prize by the game authority fails with TooManyPrizes when
\* prize_index >= 16 and with InvalidPrizeIndex when prize_index < 16 differs from
\* game.prize_count, changing nothing.
C18_IndexErrorsAsClaimed ==
  [][ (/\ Calls("add_prize")
       /\ game # NoAccount
       /\ result'.args[1] = game.authority)
      => /\ result'.args[2] >= MAX_PRIZES
              => result'.err = "TooManyPrizes" /\ AccountsUnchanged
         /\ (result'.args[2] < MAX_PRIZES /\ result'.args[2] # game.prize_count)
              => result'.err = "InvalidPrizeIndex" /\ AccountsUnchanged
    ]_vars

\* C18 (amended): an add_prize whose prize_index is >= 16 or differs from
\* game.prize_count never succeeds and changes nothing; by the game authority it fails
\* with TooManyPrizes when prize_index >= 16, with InvalidPrizeIndex when
\* prize_index < 16 has no prize account (an index above prize_count, or a closed
\* prize), and at the initialisation of the prize account, before the handler runs,
\* when prize_index < 16 already has one.  Consequently prize_count never exceeds 16,
\* changes only by +1, through a successful add_prize at index = the old prize_count
\* that creates the prize account of that index, which did not exist.
C18_SequentialIndex ==
  [][ /\ (/\ Calls("add_prize")
          /\ game # NoAccount
          /\ (result'.args[2] >= MAX_PRIZES \/ result'.args[2] # game.prize_count))
         => /\ result'.err # "Ok"
            /\ AccountsUnchanged
            /\ result'.args[1] = game.authority
                 => result'.err =
                      IF result'.args[2] >= MAX_PRIZES THEN "TooManyPrizes"
                      ELSE IF prizes[result'.args[2]] = NoAccount THEN "InvalidPrizeIndex"
                      ELSE "AccountInUse"
      /\ game' # NoAccount => game'.prize_count <= MAX_PRIZES
      /\ (game # NoAccount /\ game' # NoAccount /\ game'.prize_count # game.prize_count)
         => /\ game'.prize_count = game.prize_count + 1
            /\ Calls("add_prize")
            /\ result'.err = "Ok"
            /\ result'.args[2] = game.prize_count
            /\ prizes[game.prize_count] = NoAccount
            /\ prizes'[game.prize_count] # NoAccount
            /\ prizes'[game.prize_count].prize_index = game.prize_count
    ]_vars

C18_Witness ==
  /\ result.op = "add_prize"
  /\ result.err = "TooManyPrizes"
  /\ result.args[2] = MAX_PRIZES
  /\ game.prize_count = MAX_PRIZES
  /\ \A i \in 2..(MAX_PRIZES - 1) : prizes[i] # NoAccount /\ prizes[i].prize_index = i

\* the sum of two u32 values, limb by limb, and whether it leaves the u32 range
U32Sum(a, b) ==
  [hi |-> a.hi + b.hi + ((a.lo + b.lo) \div 65536), lo |-> (a.lo + b.lo) % 65536]

U32Overflows(a, b) == U32Sum(a, b).hi > 65535

\* C19: a successful add_prize(index, weight, supply) records weight at
\* game.prize_probabilities[index] and leaves the weights of the other indexes as they
\* were, sets prize_count to index + 1, creates the prize of that index with
\* supply_remaining = supply_total = supply, adds supply to
\* game.total_supply_remaining, sets is_active to true when the resulting total is
\* positive and leaves is_active as it was when the total is 0 (an inactive game whose
\* prizes all have supply 0 stays inactive); nothing else changes.
C19_AddPrizeEffect ==
  [][ (Calls("add_prize") /\ result'.err = "Ok")
      => LET index == result'.args[2]
             weight == result'.args[3]
             supply == result'.args[4]
         IN  /\ game'.prize_probabilities = [game.prize_probabilities EXCEPT ![index] = weight]
             /\ game'.prize_count = index + 1
             /\ prizes[index] = NoAccount
             /\ prizes'[index].game = GAME_KEY
             /\ prizes'[index].prize_index = index
             /\ prizes'[index].probability_bp = weight
             /\ prizes'[index].supply_total = supply
             /\ prizes'[index].supply_remaining = supply
             /\ \A i \in PrizeSlots \ {index} : prizes'[i] = prizes[i]
             /\ game'.total_supply_remaining = U32Sum(game.total_supply_remaining, supply)
             /\ u32_gt0(game'.total_supply_remaining) => game'.is_active
             /\ ~u32_gt0(game'.total_supply_remaining) => game'.is_active = game.is_active
             /\ game'.total_plays = game.total_plays
             /\ game'.treasury = game.treasury
             /\ UNCHANGED <<sessions, balances, minted>>
    ]_vars

C19_Witness ==
  /\ result.op = "add_prize"
  /\ result.err = "Ok"
  /\ result.args[2] = 1
  /\ result.args[4] = U32(2)
  /\ prizes[0].supply_total = U32(0)
  /\ game.total_supply_remaining = U32(2)
  /\ game.is_active
  /\ game.prize_count = 2

\* C20: a replenish_prize_supply(additional) by the game authority on an existing prize
\* of the game adds additional to prize.supply_remaining, to prize.supply_total and to
\* game.total_supply_remaining and touches no other prize; if any of the three u32
\* additions would overflow it fails with MathOverflow, and the three counters,
\* is_active and every other account are unchanged.
C20_ReplenishChecked ==
  [][ (/\ Calls("replenish_prize_supply")
       /\ game # NoAccount
       /\ prizes[result'.args[2]] # NoAccount
       /\ result'.args[1] = game.authority)
      => LET slot == result'.args[2]
             additional == result'.args[3]
         IN  IF \/ U32Overflows(prizes[slot].supply_total, additional)
                \/ U32Overflows(prizes[slot].supply_remaining, additional)
                \/ U32Overflows(game.total_supply_remaining, additional)
             THEN /\ result'.err = "MathOverflow"
                  /\ AccountsUnchanged
             ELSE /\ result'.err = "Ok"
                  /\ prizes'[slot].supply_total = U32Sum(prizes[slot].supply_total, additional)
                  /\ prizes'[slot].supply_remaining
                       = U32Sum(prizes[slot].supply_remaining, additional)
                  /\ game'.total_supply_remaining
                       = U32Sum(game.total_supply_remaining, additional)
                  /\ \A i \in PrizeSlots \ {slot} : prizes'[i] = prizes[i]
    ]_vars

C20_Witness ==
  /\ result.op = "replenish_prize_supply"
  /\ result.err = "MathOverflow"
  /\ ~U32Overflows(prizes[result.args[2]].supply_total, result.args[3])
  /\ ~U32Overflows(prizes[result.args[2]].supply_remaining, result.args[3])
  /\ U32Overflows(game.total_supply_remaining, result.args[3])
  /\ u32_gt0(result.args[3])

\* C21: after every step each prize has supply_remaining <= supply_total and carries
\* the weight the game's table records at its index; a prize that exists keeps its
\* probability_bp, and the table entry of every index below prize_count keeps its
\* value, whatever instruction the step is (replenish_prize_supply, finalize_play,
\* update_game_status, a later add_prize, play_game, close_play_session).
C21_SupplyBoundWeightsFixed ==
  [][ /\ \A i \in PrizeSlots :
           prizes'[i] # NoAccount
             => /\ u32_le(prizes'[i].supply_remaining, prizes'[i].supply_total)
                /\ game' # NoAccount
                /\ prizes'[i].probability_bp = game'.prize_probabilities[i]
      /\ \A i \in PrizeSlots :
           prizes[i] # NoAccount
             => /\ prizes'[i] # NoAccount
                /\ prizes'[i].probability_bp = prizes[i].probability_bp
      /\ game # NoAccount
           => /\ game' # NoAccount
              /\ \A i \in PrizeSlots :
                   i < game.prize_count
                     => game'.prize_probabilities[i] = game.prize_probabilities[i]
    ]_vars

C21_Witness ==
  /\ result.op = "add_prize"
  /\ result.err = "Ok"
  /\ result.args[2] = 1
  /\ wins[0] = 1
  /\ prizes[0].probability_bp = 5000
  /\ game.prize_probabilities[0] = 5000
  /\ prizes[0].supply_total = U32(2)
  /\ prizes[0].supply_remaining = U32(1)

\* C22 (as stated): a close_game called while some session of the game is pending
\* does not succeed.
C22_NoCloseWhilePending ==
  [][ (/\ Calls("close_game")
       /\ \E k \in SessionKeys :
            /\ sessions[k] # NoAccount
            /\ sessions[k].game = GAME_KEY
            /\ ~sessions[k].is_fulfilled)
      => result'.err # "Ok"
    ]_vars

\* C23: with two pending sessions of the game and a prize of supply_remaining 1, a
\* finalize_play by the backend whose draw lands in the prize's band and which names
\* the prize and the player succeeds, takes the supply to 0 and leaves the other
\* session as it was; the same call made once the supply is 0 fails with OutOfStock
\* and leaves every account, its session included, unchanged (still pending).  After
\* every step the wins recorded for a prize are at most its supply_total.
C23_LastUnitWonOnce ==
  [][ /\ \A i \in PrizeSlots :
           prizes'[i] # NoAccount
             => u32_le(U32(wins'[i]), prizes'[i].supply_total)
      /\ (/\ Calls("finalize_play")
          /\ game # NoAccount
          /\ sessions[result'.args[2]] # NoAccount
          /\ ~sessions[result'.args[2]].is_fulfilled
          /\ result'.args[1] = config.authority
          /\ DrawSelects(0)
          /\ prizes[0] # NoAccount
          /\ result'.args[4] = Some(0)
          /\ result'.args[5] = sessions[result'.args[2]].user
          /\ result'.args[6])
         => /\ prizes[0].supply_remaining = U32(1)
                 => /\ result'.err = "Ok"
                    /\ prizes'[0].supply_remaining = U32_ZERO
                    /\ sessions'[result'.args[2]].prize_index = Some(0)
                    /\ \A k \in SessionKeys :
                         k # result'.args[2] => sessions'[k] = sessions[k]
            /\ prizes[0].supply_remaining = U32_ZERO
                 => /\ result'.err = "OutOfStock"
                    /\ AccountsUnchanged
                    /\ ~sessions'[result'.args[2]].is_fulfilled
    ]_vars

\* the second of two draws on the last unit: one session has won, the other call has
\* just failed and its session is still pending
C23_Witness ==
  /\ result.op = "finalize_play"
  /\ result.err = "OutOfStock"
  /\ prizes[0].supply_total = U32(1)
  /\ prizes[0].supply_remaining = U32_ZERO
  /\ wins[0] = 1
  /\ \E k \in SessionKeys :
       /\ k # result.args[2]
       /\ sessions[k] # NoAccount
       /\ sessions[k].prize_index = Some(0)
  /\ ~sessions[result.args[2]].is_fulfilled

C25_WithdrawTreasury ==
  [][ (Calls("withdraw_treasury") /\ game # NoAccount)
      => LET authority == result'.args[1]
             treasury == result'.args[2]
             from == result'.args[3]
             to == result'.args[4]
             amount == result'.args[5]
         IN  /\ result'.err = "Ok"
                  => /\ authority = game.authority
                     /\ treasury = game.treasury
                     /\ ta_owner[from] = game.treasury
                     /\ ta_mint[from] = game.token_mint
                     /\ balances[from] >= amount
                     /\ from # to => /\ balances'[from] = balances[from] - amount
                                     /\ balances'[to] = balances[to] + amount
                     /\ from = to => balances'[from] = balances[from]
                     /\ \A a \in TokenAccounts \ {from, to} : balances'[a] = balances[a]
                     /\ UNCHANGED <<game, prizes, sessions, minted, config>>
             /\ result'.err # "Ok" => AccountsUnchanged
             /\ balances[from] < amount => result'.err # "Ok"
    ]_vars

C25_Witness ==
  /\ result.op = "withdraw_treasury"
  /\ result.err = "Ok"
  /\ result.args = <<"admin", "treasury", "treasury_ta", "mallory_ta", 1>>
  /\ balances["mallory_ta"] = 1
  /\ balances["treasury_ta"] = 1
  /\ game.total_plays = 0
  /\ \E k \in SessionKeys : sessions[k] # NoAccount

\* the step is a successful buy_nft in which buyer, recorded seller and configured
\* platform treasury are three different wallets
PlainPurchase ==
  /\ Calls("buy_nft")
  /\ result'.err = "Ok"
  /\ result'.args[1] # listings[result'.args[2]].seller
  /\ result'.args[1] # market_config.platform_treasury
  /\ listings[result'.args[2]].seller # market_config.platform_treasury

\* C26 (as stated): after a successful buy_nft on a listing of price p the recorded
\* seller's currency account holds p - fee more, the configured platform treasury's
\* holds fee more, the buyer's holds p less and the buyer holds the escrowed unit,
\* whatever seller currency account the call names.
C26_SellerIsPaid ==
  [][ PlainPurchase
      => LET listing == listings[result'.args[2]]
             buyer == result'.args[1]
             p == listing.price_in_tokens
             fee == (p * 200) \div 10000
             seller_account == <<listing.seller, listing.currency_mint>>
             platform_account == <<market_config.platform_treasury, listing.currency_mint>>
             buyer_account == <<buyer, listing.currency_mint>>
         IN  /\ tokens'[seller_account] = tokens[seller_account] + (p - fee)
             /\ tokens'[platform_account] = tokens[platform_account] + fee
             /\ tokens'[buyer_account] = tokens[buyer_account] - p
             /\ tokens'[<<buyer, listing.nft_mint>>] = tokens[<<buyer, listing.nft_mint>>] + 1
    ]_vars

\* C27: in every listing at most one of cancelled_at and sold_at is set, a listing
\* with either of them set is not active, and buyer is set exactly when sold_at is.
C27_ListingTimestamps ==
  \A m \in NftMints :
    listings[m] # NoAccount
      => /\ ~(is_some(listings[m].cancelled_at) /\ is_some(listings[m].sold_at))
         /\ is_some(listings[m].cancelled_at) => ~listings[m].is_active
         /\ is_some(listings[m].sold_at) => ~listings[m].is_active
         /\ is_some(listings[m].buyer) <=> is_some(listings[m].sold_at)

\* one listing sold and the other cancelled
C27_Witness ==
  /\ listings["nft_1"] # NoAccount
  /\ listings["nft_2"] # NoAccount
  /\ listings["nft_1"].sold_at = Some(2)
  /\ listings["nft_1"].buyer = Some("bob")
  /\ listings["nft_2"].cancelled_at = Some(2)
  /\ listings["nft_2"].buyer = None

\* the accounts of this step's call pass the account constraints that are checked
\* before the handler reads is_active
ConstraintsPass ==
  LET listing == listings[result'.args[2]] IN
  IF Calls("buy_nft")
  THEN /\ market_config # NoAccount
       /\ account_mint(result'.args[4]) = result'.args[3]
       /\ account_mint(result'.args[5]) = result'.args[3]
  ELSE result'.args[1] = listing.seller

\* C28: a listing that is not active stays exactly as it is in every step; the only
\* change of is_active is from true to false, made by a successful buy_nft (sold_at
\* set) or a successful cancel_listing (cancelled_at set).  A buy_nft, cancel_listing
\* or update_listing_price on a listing that is not active never succeeds and changes
\* no listing, no token balance and no configuration, and it fails with
\* ListingInactive when its accounts pass the constraints checked before the handler.
C28_TerminalStates ==
  [][ /\ \A m \in NftMints :
           listings[m] # NoAccount
             => /\ ~listings[m].is_active => listings'[m] = listings[m]
                /\ listings'[m] # NoAccount
                /\ listings'[m].is_active # listings[m].is_active
                     => /\ listings[m].is_active
                        /\ result'.err = "Ok"
                        /\ result'.args[2] = m
                        /\ \/ Calls("buy_nft") /\ is_some(listings'[m].sold_at)
                                 /\ listings'[m].cancelled_at = None
                           \/ Calls("cancel_listing") /\ is_some(listings'[m].cancelled_at)
                                 /\ listings'[m].sold_at = None
      /\ (/\ result'.op \in {"buy_nft", "cancel_listing", "update_listing_price"}
          /\ listings[result'.args[2]] # NoAccount
          /\ ~listings[result'.args[2]].is_active)
         => /\ result'.err # "Ok"
            /\ UNCHANGED marketVars
            /\ ConstraintsPass => result'.err = "ListingInactive"
    ]_vars

\* a purchase attempted on a listing already sold to someone else
C28_Witness ==
  /\ result.op = "buy_nft"
  /\ result.err = "ListingInactive"
  /\ result.args[1] = "mallory"
  /\ listings[result.args[2]].buyer = Some("bob")
  /\ tokens[<<"bob", "nft_1">>] = 1

\* C29: each collectible has one unit.  A list_nft with price 0 never succeeds and
\* changes nothing, and fails with InvalidPrice when the collectible has no listing
\* yet.  After every step the unit of a collectible whose listing is active is in the
\* escrow account of its nft_mint; a successful buy_nft leaves it with the buyer and
\* a successful cancel_listing with the seller; the escrow balance of a collectible
\* decreases in no other step.
C29_EscrowCustody ==
  [][ /\ (Calls("list_nft") /\ result'.args[4] = 0)
           => /\ result'.err # "Ok"
              /\ UNCHANGED marketVars
              /\ listings[result'.args[2]] = NoAccount => result'.err = "InvalidPrice"
      /\ \A m \in NftMints :
           LET escrow == <<escrow_authority[m], m>> IN
           /\ (listings'[m] # NoAccount /\ listings'[m].is_active)
                => /\ tokens'[escrow] = 1
                   /\ \A a \in MarketAccounts :
                        (account_mint(a) = m /\ a # escrow) => tokens'[a] = 0
           /\ (Calls("buy_nft") /\ result'.err = "Ok" /\ result'.args[2] = m)
                => /\ tokens'[<<result'.args[1], m>>] = 1
                   /\ tokens'[escrow] = 0
           /\ (Calls("cancel_listing") /\ result'.err = "Ok" /\ result'.args[2] = m)
                => /\ tokens'[<<listings[m].seller, m>>] = 1
                   /\ tokens'[escrow] = 0
           /\ tokens'[escrow] < tokens[escrow]
                => /\ result'.op \in {"buy_nft", "cancel_listing"}
                   /\ result'.err = "Ok"
                   /\ result'.args[2] = m
    ]_vars

\* a listing at price 0 refused while the other collectible sits in its escrow
C29_Witness ==
  /\ result.op = "list_nft"
  /\ result.err = "InvalidPrice"
  /\ result.args[4] = 0
  /\ listings["nft_1"] = NoAccount
  /\ tokens[<<"alice", "nft_1">>] = 1
  /\ listings["nft_2"] # NoAccount
  /\ listings["nft_2"].is_active
  /\ tokens[<<"escrow_2", "nft_2">>] = 1

\* C30: a cancel_listing that succeeds is on an active listing and signed by its
\* recorded seller; it moves the escrowed unit to the seller, sets is_active false and
\* cancelled_at to the time of the call, and leaves sold_at and buyer unset and every
\* other field, listing, balance and the configuration as they were.  A
\* cancel_listing on a listing that is not active or signed by anyone else fails, and
\* a cancel_listing that fails changes nothing.
C30_CancelListing ==
  [][ Calls("cancel_listing")
      => LET m == result'.args[2]
             signer == result'.args[1]
             listing == listings[m]
             escrow == <<escrow_authority[m], m>>
             allowed == /\ listing # NoAccount
                        /\ listing.is_active
                        /\ listing.seller = signer
         IN  /\ result'.err # "Ok" => UNCHANGED marketVars
             /\ ~allowed => result'.err # "Ok"
             /\ result'.err = "Ok"
                  => /\ allowed
                     /\ tokens[escrow] = 1
                     /\ tokens'[escrow] = 0
                     /\ tokens'[<<listing.seller, m>>] = tokens[<<listing.seller, m>>] + 1
                     /\ \A a \in MarketAccounts \ {escrow, <<listing.seller, m>>} :
                          tokens'[a] = tokens[a]
                     /\ listings'[m] = [listing EXCEPT !.is_active = FALSE,
                                                       !.cancelled_at = Some(result'.args[3])]
                     /\ listings'[m].sold_at = None
                     /\ listings'[m].buyer = None
                     /\ \A n \in NftMints \ {m} : listings'[n] = listings[n]
                     /\ UNCHANGED market_config
    ]_vars

C30_Witness ==
  /\ result.op = "cancel_listing"
  /\ result.err = "Ok"
  /\ result.args = <<"alice", "nft_1", 2>>
  /\ ~listings["nft_1"].is_active
  /\ listings["nft_1"].cancelled_at = Some(2)
  /\ listings["nft_1"].sold_at = None
  /\ tokens[<<"alice", "nft_1">>] = 1
  /\ tokens[<<"escrow_1", "nft_1">>] = 0

\* exact arithmetic on naturals written as limbs, of any length
NatMul(a, k) == MulCarry(a, k, 1, 0)

RECURSIVE AddCarry(_, _, _, _)
AddCarry(a, b, i, carry) ==
  IF i > Len(a) THEN <<carry>>
  ELSE LET t == a[i] + b[i] + carry IN
       <<t % LIMB>> \o AddCarry(a, b, i + 1, t \div LIMB)

\* a + b for a and b of the same length
NatAdd(a, b) == AddCarry(a, b, 1, 0)

RECURSIVE NatLeFrom(_, _, _)
\* a <= b on the limbs 1..i, for a and b of the same length
NatLeFrom(a, b, i) ==
  IF i = 0 THEN TRUE
  ELSE IF a[i] # b[i] THEN a[i] < b[i]
  ELSE NatLeFrom(a, b, i - 1)

NatLe(a, b) == NatLeFrom(a, b, Len(a))

\* C31: for every 64-bit price p the amounts of buy_nft are computed without error,
\* fee is floor(p * 200 / 10000), that is fee * 10000 <= p * 200 < fee * 10000 + 10000,
\* seller_amount is p - fee, that is fee + seller_amount = p, and fee <= p; p = 1000
\* gives fee 20 and seller_amount 980 and every p below 50 gives fee 0.
C31_FeeArithmetic ==
  is_some(quote.amounts)
    => LET p == quote.price
           amounts == unwrap(quote.amounts)
           fee == amounts.fee
           seller_amount == amounts.seller_amount
           scaled == NatMul(p, 200) \o <<0>>
           floor == NatMul(fee, 10000)
           ceiling == NatAdd(floor, <<10000, 0, 0, 0, 0>>)
       IN  /\ amounts.err = "Ok"
           /\ Len(fee) = 4 /\ Len(seller_amount) = 4
           /\ \A i \in 1..4 : fee[i] \in 0..65535 /\ seller_amount[i] \in 0..65535
           /\ NatLe(floor \o <<0>>, scaled)
           /\ NatLe(scaled, ceiling) /\ scaled # ceiling
           /\ NatAdd(fee, seller_amount) = p \o <<0>>
           /\ NatLe(fee, p)
           /\ p = <<1000, 0, 0, 0>>
                => fee = <<20, 0, 0, 0>> /\ seller_amount = <<980, 0, 0, 0>>
           /\ (p[1] < 50 /\ p[2] = 0 /\ p[3] = 0 /\ p[4] = 0) => fee = <<0, 0, 0, 0>>

\* the amounts of the largest price: fee = floor((2^64 - 1) / 50)
C31_Witness ==
  /\ quote.price = U64_MAX
  /\ is_some(quote.amounts)
  /\ unwrap(quote.amounts).err = "Ok"
  /\ unwrap(quote.amounts).fee = <<7864, 60293, 47185, 1310>>

RECURSIVE PrizeSupplySum(_, _)
\* the sum of supply_remaining over the prize records of the game at indexes below n
PrizeSupplySum(pr, n) ==
  IF n = 0 THEN U32_ZERO
  ELSE IF pr[n - 1] # NoAccount /\ pr[n - 1].game = GAME_KEY
       THEN U32Sum(PrizeSupplySum(pr, n - 1), pr[n - 1].supply_remaining)
       ELSE PrizeSupplySum(pr, n - 1)

\* C32 (as stated): in every state game.total_supply_remaining is the sum of
\* supply_remaining over the prize records of the game, so that a positive total
\* comes with a prize record that has supply left.
C32_TotalIsSumOfPrizes ==
  game # NoAccount
    => /\ game.total_supply_remaining = PrizeSupplySum(prizes, MAX_PRIZES)
       /\ u32_gt0(game.total_supply_remaining)
            => \E i \in PrizeSlots :
                 /\ prizes[i] # NoAccount
                 /\ u32_gt0(prizes[i].supply_remaining)

RECURSIVE Cumulative(_, _)
\* the resolver's u16 accumulator after the first n entries of the table
Cumulative(probabilities, n) ==
  IF n = 0 THEN 0
  ELSE saturating_add_u16(Cumulative(probabilities, n - 1), probabilities[n - 1])

\* C33: after every step the resolver's saturating u16 accumulator equals the exact
\* sum of the weights at every position of the table, and that sum is at most 10000;
\* no finalize_play fails with MathOverflow; and a finalize_play that wins a prize
\* finds game.total_supply_remaining >= 1 and leaves it exactly one lower.
C33_NoClampNoOverflow ==
  [][ /\ (game' # NoAccount /\ game' # game)
           => /\ \A n \in 0..MAX_PRIZES :
                   Cumulative(game'.prize_probabilities, n)
                     = SumTo(game'.prize_probabilities, n)
              /\ SumTo(game'.prize_probabilities, MAX_PRIZES) <= BP_TOTAL
      /\ Calls("finalize_play") => result'.err # "MathOverflow"
      /\ (/\ Calls("finalize_play")
          /\ result'.err = "Ok"
          /\ is_some(sessions'[result'.args[2]].prize_index))
         => /\ u32_gt0(game.total_supply_remaining)
            /\ U32Plus(game'.total_supply_remaining, 1) = game.total_supply_remaining
            /\ LET i == unwrap(sessions'[result'.args[2]].prize_index) IN
               /\ u32_gt0(prizes[i].supply_remaining)
               /\ U32Plus(prizes'[i].supply_remaining, 1) = prizes[i].supply_remaining
    ]_vars

\* a win of prize 0 after prize 1 was closed: the game's total is still 1 afterwards
C33_Witness ==
  /\ result.op = "finalize_play"
  /\ result.err = "Ok"
  /\ game # NoAccount
  /\ sessions[result.args[2]].prize_index = Some(0)
  /\ game.prize_count = 2
  /\ prizes[1] = NoAccount
  /\ prizes[0].supply_remaining = U32_ZERO
  /\ game.total_supply_remaining = U32(1)

\* C34 (as stated): in every state, for every index below prize_count the game's
\* weight is the probability_bp of the prize record of that index, and for every
\* index from prize_count on the game's weight is 0.
C34_WeightsInLockStep ==
  game # NoAccount
    => \A i \in PrizeSlots :
         IF i < game.prize_count
         THEN /\ prizes[i] # NoAccount
              /\ prizes[i].prize_index = i
              /\ prizes[i].probability_bp = game.prize_probabilities[i]
         ELSE game.prize_probabilities[i] = 0

RECURSIVE IssuedFor(_, _, _)
\* the collectibles issued for prize i to the wallets in `owners`
IssuedFor(mt, i, owners) ==
  IF owners = {} THEN 0
  ELSE LET o == CHOOSE x \in owners : TRUE IN
       mt[<<o, i>>] + IssuedFor(mt, i, owners \ {o})

\* C35: in every state, for every prize, supply_total - supply_remaining is the
\* number of finalize_play calls that resolved a session as a win of that prize
\* (sessions closed since included) and the number of collectibles issued for it.
C35_SupplySpentIsWins ==
  \A i \in PrizeSlots :
    prizes[i] # NoAccount
      => /\ U32Plus(prizes[i].supply_remaining, wins[i]) = prizes[i].supply_total
         /\ IssuedFor(minted, i, Users) = wins[i]

\* a prize won once, its session closed, and replenished afterwards
C35_Witness ==
  /\ result.op = "replenish_prize_supply"
  /\ result.err = "Ok"
  /\ wins[0] = 1
  /\ minted[<<"alice", 0>>] = 1
  /\ sessions[<<"alice", "seed_a">>] = NoAccount
  /\ prizes[0].supply_total = U32(2)
  /\ prizes[0].supply_remaining = U32(1)

\* the collectibles issued so far, over all wallets and prizes
IssuedInAll(mt) == SumTo([i \in PrizeSlots |-> IssuedFor(mt, i, Users)], MAX_PRIZES)

\* C36: after every step a fulfilled session with a winning prize_index has
\* is_claimed = true; no claim_prize succeeds; no close_play_session fails with
\* NotClaimed; and a collectible is issued only by a finalize_play that fulfils a
\* session that was pending, one collectible in that step, so that a session never
\* has more than one.
C36_WinsAreClaimed ==
  [][ /\ \A k \in SessionKeys :
           (/\ sessions'[k] # NoAccount
            /\ sessions'[k].is_fulfilled
            /\ is_some(sessions'[k].prize_index))
             => sessions'[k].is_claimed
      /\ Calls("claim_prize") => result'.err # "Ok"
      /\ Calls("close_play_session") => result'.err # "NotClaimed"
      /\ minted' # minted
           => /\ Calls("finalize_play")
              /\ result'.err = "Ok"
              /\ ~sessions[result'.args[2]].is_fulfilled
              /\ sessions'[result'.args[2]].is_fulfilled
              /\ is_some(sessions'[result'.args[2]].prize_index)
              /\ IssuedInAll(minted') = IssuedInAll(minted) + 1
    ]_vars

\* the player closes a session that won: it was claimed by the finalize_play itself
C36_Witness ==
  /\ result.op = "close_play_session"
  /\ result.err = "Ok"
  /\ result.args[1] = "alice"
  /\ sessions[result.args[2]] = NoAccount
  /\ wins[0] = 1
  /\ minted[<<"alice", 0>>] = 1
  /\ game.total_plays = 1

\* C37: on a game that is inactive while its total supply is positive (paused by
\* update_game_status), a successful replenish_prize_supply of a positive amount and
\* a successful add_prize that leaves the total positive, one adding supply 0
\* included, set is_active to true; and the guards of play_game accept a positive
\* amount on the game as it then is.
C37_PauseDoesNotSurvive ==
  [][ (/\ result'.op \in {"replenish_prize_supply", "add_prize"}
       /\ result'.err = "Ok"
       /\ ~game.is_active
       /\ u32_gt0(game.total_supply_remaining)
       /\ Calls("replenish_prize_supply") => u32_gt0(result'.args[3])
       /\ Calls("add_prize") => u32_gt0(game'.total_supply_remaining))
      => /\ game'.is_active
         /\ play_game_guard(game'.is_active, game'.total_supply_remaining, 1) = "Ok"
    ]_vars

\* an add_prize of supply 0 that found the game paused and left it active
C37_Witness ==
  /\ result.op = "add_prize"
  /\ result.err = "Ok"
  /\ result.args[4] = U32_ZERO
  /\ ~result.was_active
  /\ game.prize_count = 2
  /\ game.is_active
  /\ game.total_supply_remaining = U32(1)
  /\ prizes[0].supply_remaining = U32(1)

C39_ListedOnce ==
  [][ /\ \A m \in NftMints :
           /\ listings[m] # NoAccount
                => /\ listings'[m] # NoAccount
                   /\ listings'[m].seller = listings[m].seller
                   /\ listings'[m].nft_mint = listings[m].nft_mint
                   /\ listings'[m].listed_at = listings[m].listed_at
           /\ (listings[m] = NoAccount /\ listings'[m] # NoAccount)
                => /\ Calls("list_nft")
                   /\ result'.err = "Ok"
                   /\ result'.args[2] = m
      /\ (Calls("list_nft") /\ listings[result'.args[2]] # NoAccount)
           => /\ result'.err = "AccountInUse"
              /\ UNCHANGED marketVars
      /\ (Calls("list_nft") /\ result'.err = "Ok")
           => /\ listings[result'.args[2]] = NoAccount
              /\ listings'[result'.args[2]] # NoAccount
    ]_vars

\* the buyer of a sold collectible, holding the unit, tries to list it
C39_Witness ==
  /\ result.op = "list_nft"
  /\ result.err = "AccountInUse"
  /\ result.args[1] = "bob"
  /\ result.args[2] = "nft_1"
  /\ listings["nft_1"].buyer = Some("bob")
  /\ ~listings["nft_1"].is_active
  /\ tokens[<<"bob", "nft_1">>] = 1
====
